---- MODULE Spec2Model ----
(***************************************************************************)
(* vark: a markdown editor whose document lives in the URL hash.           *)
(*                                                                         *)
(* Part 1 models the content codec (encodeContent / decodeContent of       *)
(* components/editor.tsx) down to characters and bytes: JSON text, UTF-8,  *)
(* the gzip container and base64.  Part 2 models the editor's              *)
(* synchronisation logic (refs, React state, the debounce timer, the       *)
(* asynchronous continuations and the browser history).                    *)
(*                                                                         *)
(* Texts are TLA+ strings; a character is a string of length 1; bytes are  *)
(* integers 0..255 held in tuples.                                         *)
(***************************************************************************)
EXTENDS Integers, Sequences, FiniteSets, Bags, TLC

Modes == {"edit", "live", "view"}

(***************************************************************************)
(* Characters and code points                                              *)
(***************************************************************************)
CharAt(s, i) == IF i >= 1 /\ i <= Len(s) THEN SubSeq(s, i, i) ELSE ""

\* code points 32..95 and 97..126 (the accent grave, 96, is left out)
AsciiLow == " !\"#$%&'()*+,-./0123456789:;<=>?@ABCDEFGHIJKLMNOPQRSTUVWXYZ[\\]^_"
AsciiHigh == "abcdefghijklmnopqrstuvwxyz{|}~"

\* U+FFFD, what TextDecoder substitutes for a malformed sequence
ReplacementChar == "�"
\* U+FEFF, the byte order mark TextDecoder drops at the start of its input
BomChar == "﻿"

\* the character repertoire of the model, as <<character, code point>>
CharCodes ==
    { <<CharAt(AsciiLow, i), 31 + i>> : i \in 1..64 }
        \cup { <<CharAt(AsciiHigh, i), 96 + i>> : i \in 1..30 }
        \cup { <<"\t", 9>>, <<"\n", 10>>, <<"\f", 12>>, <<"\r", 13>>,
               <<"é", 233>>, <<"€", 8364>>, <<BomChar, 65279>>,
               <<ReplacementChar, 65533>> }

KnownChars == { p[1] : p \in CharCodes }
KnownCodes == { p[2] : p \in CharCodes }

codePointAt == [c \in KnownChars |-> (CHOOSE p \in CharCodes : p[1] = c)[2]]
fromCodePoint == [n \in KnownCodes |-> (CHOOSE p \in CharCodes : p[2] = n)[1]]

(***************************************************************************)
(* Encoding pipeline of encodeContent                                      *)
(***************************************************************************)
\* JSON.stringify's quoting of one character of a string
\* a variant that leaves the quotation mark as it is
JsonEscapeCharNoQuote(c) ==
    CASE c = "\\" -> "\\\\"
      [] c = "\n" -> "\\n"
      [] c = "\t" -> "\\t"
      [] c = "\r" -> "\\r"
      [] c = "\f" -> "\\f"
      [] OTHER -> c

JsonEscapeChar(c) ==
    CASE c = "\"" -> "\\\""
      [] c = "\\" -> "\\\\"
      [] c = "\n" -> "\\n"
      [] c = "\t" -> "\\t"
      [] c = "\r" -> "\\r"
      [] c = "\f" -> "\\f"
      [] OTHER -> c

RECURSIVE JsonEscape(_)
JsonEscape(s) ==
    IF Len(s) = 0 THEN ""
    ELSE IF Len(s) = 1 THEN JsonEscapeChar(s)
    ELSE LET mid == Len(s) \div 2
         IN  JsonEscape(SubSeq(s, 1, mid)) \o JsonEscape(SubSeq(s, mid + 1, Len(s)))

JsonQuote(s) == "\"" \o JsonEscape(s) \o "\""

\* JSON.stringify({ content: text, mode })
JsonStringify(text, mode) ==
    "{\"content\":" \o JsonQuote(text) \o ",\"mode\":" \o JsonQuote(mode) \o "}"

\* the UTF-8 bytes of one code point of the Basic Multilingual Plane
Utf8OfCode(n) ==
    IF n < 128 THEN <<n>>
    ELSE IF n < 2048 THEN <<192 + (n \div 64), 128 + (n % 64)>>
    ELSE <<224 + (n \div 4096), 128 + ((n \div 64) % 64), 128 + (n % 64)>>

\* new TextEncoder().encode(s)
RECURSIVE TextEncode(_)
TextEncode(s) ==
    IF Len(s) = 0 THEN <<>>
    ELSE IF Len(s) = 1 THEN Utf8OfCode(codePointAt[s])
    ELSE LET mid == Len(s) \div 2
         IN  TextEncode(SubSeq(s, 1, mid)) \o TextEncode(SubSeq(s, mid + 1, Len(s)))

RECURSIVE SumBytes(_)
SumBytes(b) ==
    IF Len(b) = 0 THEN 0
    ELSE IF Len(b) = 1 THEN b[1]
    ELSE LET mid == Len(b) \div 2
         IN  SumBytes(SubSeq(b, 1, mid)) + SumBytes(SubSeq(b, mid + 1, Len(b)))

\* a 32-bit value as four bytes, least significant first
LittleEndian32(n) ==
    <<n % 256, (n \div 256) % 256, (n \div 65536) % 256, (n \div 16777216) % 256>>

\* the check value of the gzip trailer, an additive stand-in for CRC-32
\* (a stored block holds at most 65535 bytes, so the sum fits 32 bits)
Checksum(b) == LittleEndian32(SumBytes(b))

\* ID1 ID2 CM FLG MTIME(4) XFL OS
GzipHeader == <<31, 139, 8, 0, 0, 0, 0, 0, 0, 3>>

\* one final stored deflate block: BFINAL/BTYPE, LEN, NLEN, data.  The
\* encoder of the model does not compress: its streams are valid gzip, of
\* the length real streams have for text that does not compress
DeflateStored(b) ==
    <<1, Len(b) % 256, Len(b) \div 256,
      (65535 - Len(b)) % 256, (65535 - Len(b)) \div 256>> \o b

\* CompressionStream('gzip'): header, deflate data, check value, ISIZE
Gzip(b) == GzipHeader \o DeflateStored(b) \o Checksum(b) \o LittleEndian32(Len(b))

Base64Alphabet == "ABCDEFGHIJKLMNOPQRSTUVWXYZabcdefghijklmnopqrstuvwxyz0123456789+/"
Base64Digit(n) == CharAt(Base64Alphabet, n + 1)

\* btoa of at most three bytes
Base64Group(b) ==
    IF Len(b) = 3 THEN
        Base64Digit(b[1] \div 4) \o Base64Digit((b[1] % 4) * 16 + b[2] \div 16)
            \o Base64Digit((b[2] % 16) * 4 + b[3] \div 64) \o Base64Digit(b[3] % 64)
    ELSE IF Len(b) = 2 THEN
        Base64Digit(b[1] \div 4) \o Base64Digit((b[1] % 4) * 16 + b[2] \div 16)
            \o Base64Digit((b[2] % 16) * 4) \o "="
    ELSE IF Len(b) = 1 THEN
        Base64Digit(b[1] \div 4) \o Base64Digit((b[1] % 4) * 16) \o "=="
    ELSE ""

\* btoa(String.fromCharCode(...bytes))
RECURSIVE btoa(_)
btoa(b) ==
    IF Len(b) <= 3 THEN Base64Group(b)
    ELSE LET mid == 3 * (((Len(b) + 2) \div 3) \div 2)
         IN  btoa(SubSeq(b, 1, mid)) \o btoa(SubSeq(b, mid + 1, Len(b)))

\* a variant whose sentinel test looks at the text only
encodeContentAnyMode(text, mode, streamsOk) ==
    IF text = "" THEN ""
    ELSE IF ~streamsOk THEN ""
    ELSE btoa(Gzip(TextEncode(JsonStringify(text, mode))))

\* encodeContent(text, mode); streamsOk = FALSE is a run in which the
\* try block throws (CompressionStream missing or failing)
encodeContent(text, mode, streamsOk) ==
    IF text = "" /\ mode = "edit" THEN ""
    ELSE IF ~streamsOk THEN ""
    ELSE btoa(Gzip(TextEncode(JsonStringify(text, mode))))

(***************************************************************************)
(* Decoding pipeline of decodeContent                                      *)
(***************************************************************************)
AsciiWhitespace == {"\t", "\n", "\f", "\r", " "}

RECURSIVE StripWhitespace(_)
StripWhitespace(s) ==
    IF Len(s) = 0 THEN ""
    ELSE IF Len(s) = 1 THEN (IF s \in AsciiWhitespace THEN "" ELSE s)
    ELSE LET mid == Len(s) \div 2
         IN  StripWhitespace(SubSeq(s, 1, mid))
                 \o StripWhitespace(SubSeq(s, mid + 1, Len(s)))

\* atob drops one or two trailing "=" of an input whose length divides by 4
StripPadding(s) ==
    IF Len(s) > 0 /\ Len(s) % 4 = 0 /\ CharAt(s, Len(s)) = "="
    THEN IF CharAt(s, Len(s) - 1) = "="
         THEN SubSeq(s, 1, Len(s) - 2)
         ELSE SubSeq(s, 1, Len(s) - 1)
    ELSE s

Base64Value(c) == (CHOOSE i \in 1..64 : CharAt(Base64Alphabet, i) = c) - 1

IsBase64Digits(s) ==
    \A i \in 1..Len(s) : \E j \in 1..64 : CharAt(Base64Alphabet, j) = CharAt(s, i)

\* the bytes of two to four base64 digits (left-over bits are discarded)
Base64Bytes(g) ==
    LET v(i) == Base64Value(CharAt(g, i))
    IN  IF Len(g) = 4 THEN
            <<v(1) * 4 + v(2) \div 16, (v(2) % 16) * 16 + v(3) \div 4,
              (v(3) % 4) * 64 + v(4)>>
        ELSE IF Len(g) = 3 THEN
            <<v(1) * 4 + v(2) \div 16, (v(2) % 16) * 16 + v(3) \div 4>>
        ELSE IF Len(g) = 2 THEN <<v(1) * 4 + v(2) \div 16>>
        ELSE <<>>

RECURSIVE Base64Decode(_)
Base64Decode(s) ==
    IF Len(s) <= 4 THEN Base64Bytes(s)
    ELSE LET mid == 4 * (((Len(s) + 3) \div 4) \div 2)
         IN  Base64Decode(SubSeq(s, 1, mid)) \o Base64Decode(SubSeq(s, mid + 1, Len(s)))

\* atob(encoded) (forgiving-base64 decode); ok = FALSE where atob throws
atob(encoded) ==
    LET data == StripPadding(StripWhitespace(encoded))
    IN  IF Len(data) % 4 = 1 \/ ~IsBase64Digits(data)
        THEN [ok |-> FALSE, bytes |-> <<>>]
        ELSE [ok |-> TRUE, bytes |-> Base64Decode(data)]

\* DecompressionStream('gzip'); ok = FALSE where the stream errors
Gunzip(b) ==
    LET n    == Len(b)
        len  == b[12] + 256 * b[13]
        nlen == b[14] + 256 * b[15]
        data == SubSeq(b, 16, 15 + len)
    IN  IF n < 23 THEN [ok |-> FALSE, bytes |-> <<>>]
        ELSE IF b[1] # 31 \/ b[2] # 139 \/ b[3] # 8 \/ b[4] # 0
            THEN [ok |-> FALSE, bytes |-> <<>>]
        ELSE IF b[11] # 1 \/ len + nlen # 65535 \/ n # 23 + len
            THEN [ok |-> FALSE, bytes |-> <<>>]
        ELSE IF SubSeq(b, 16 + len, 19 + len) # Checksum(data)
                \/ SubSeq(b, 20 + len, 23 + len) # LittleEndian32(len)
            THEN [ok |-> FALSE, bytes |-> <<>>]
        ELSE [ok |-> TRUE, bytes |-> data]

IsContinuation(b, i) == i <= Len(b) /\ b[i] >= 128 /\ b[i] <= 191

CharOfCode(n) == IF n \in KnownCodes THEN fromCodePoint[n] ELSE ReplacementChar

\* UTF-8 decoding from byte i on; a malformed sequence yields U+FFFD
RECURSIVE Utf8DecodeFrom(_, _)
Utf8DecodeFrom(b, i) ==
    IF i > Len(b) THEN ""
    ELSE IF b[i] < 128 THEN CharOfCode(b[i]) \o Utf8DecodeFrom(b, i + 1)
    ELSE IF b[i] >= 194 /\ b[i] <= 223 /\ IsContinuation(b, i + 1)
        THEN CharOfCode((b[i] - 192) * 64 + (b[i + 1] - 128))
                 \o Utf8DecodeFrom(b, i + 2)
    ELSE IF b[i] >= 224 /\ b[i] <= 239 /\ IsContinuation(b, i + 1)
            /\ IsContinuation(b, i + 2)
            /\ (b[i] # 224 \/ b[i + 1] >= 160)
            /\ (b[i] # 237 \/ b[i + 1] <= 159)
        THEN CharOfCode((b[i] - 224) * 4096 + (b[i + 1] - 128) * 64 + (b[i + 2] - 128))
                 \o Utf8DecodeFrom(b, i + 3)
    ELSE ReplacementChar \o Utf8DecodeFrom(b, i + 1)

\* new TextDecoder().decode(bytes): a leading byte order mark is dropped
TextDecode(b) ==
    IF Len(b) >= 3 /\ b[1] = 239 /\ b[2] = 187 /\ b[3] = 191
    THEN Utf8DecodeFrom(b, 4)
    ELSE Utf8DecodeFrom(b, 1)

(***************************************************************************)
(* JSON.parse, as far as its callers look at the result: the kind of the   *)
(* value, whether it is falsy, and the members of an object (content and   *)
(* mode apart, for decodeContent).  A value that is not a string is        *)
(* carried as its source text.                                             *)
(***************************************************************************)
NoMember == [has |-> FALSE, kind |-> "undefined", str |-> "", falsy |-> TRUE]

ParseFail ==
    [ok |-> FALSE, pos |-> 0, kind |-> "undefined", str |-> "", falsy |-> TRUE,
     content |-> NoMember, mode |-> NoMember, members |-> <<>>]

ParsedValue(pos, kind, str, falsy) ==
    [ok |-> TRUE, pos |-> pos, kind |-> kind, str |-> str, falsy |-> falsy,
     content |-> NoMember, mode |-> NoMember, members |-> <<>>]

\* the members of an object with the member name set to a value: a name met
\* again keeps its place and takes the later value
PutMember(ms, name, kind, str) ==
    IF \E k \in 1..Len(ms) : ms[k].name = name
    THEN [k \in 1..Len(ms) |->
            IF ms[k].name = name THEN [name |-> name, kind |-> kind, str |-> str]
            ELSE ms[k]]
    ELSE Append(ms, [name |-> name, kind |-> kind, str |-> str])

\* values of JavaScript as far as a stored credential is looked at: null, an
\* object with its members in order, or another value by its source text
NullValue == [kind |-> "null", falsy |-> TRUE, str |-> "null", members |-> <<>>]

ObjectValue(members) ==
    [kind |-> "object", falsy |-> FALSE, str |-> "", members |-> members]

Slice(s, i, j) ==
    IF i > Len(s) \/ j < i THEN "" ELSE SubSeq(s, i, IF j > Len(s) THEN Len(s) ELSE j)

JsonWhitespace == {"\t", "\n", "\r", " "}
Digits == {"0", "1", "2", "3", "4", "5", "6", "7", "8", "9"}
HexDigits == "0123456789abcdef"
HexUpper == "ABCDEF"

IsHex(c) ==
    c # "" /\ \E i \in 1..16 : CharAt(HexDigits, i) = c \/ CharAt(HexUpper, i - 10) = c

HexValue(c) ==
    (CHOOSE i \in 1..16 : CharAt(HexDigits, i) = c \/ CharAt(HexUpper, i - 10) = c) - 1

RECURSIVE SkipWs(_, _)
SkipWs(s, i) == IF CharAt(s, i) \in JsonWhitespace THEN SkipWs(s, i + 1) ELSE i

RECURSIVE SkipDigits(_, _)
SkipDigits(s, i) == IF CharAt(s, i) \in Digits THEN SkipDigits(s, i + 1) ELSE i

\* the rest of a string literal from position j on; acc is its value so far
RECURSIVE ScanString(_, _, _)
ScanString(s, j, acc) ==
    LET c == CharAt(s, j)
        e == CharAt(s, j + 1)
    IN  IF c = "" THEN ParseFail
        ELSE IF c = "\"" THEN ParsedValue(j + 1, "string", acc, acc = "")
        ELSE IF c = "\\" THEN
            IF e \in {"\"", "\\", "/"} THEN ScanString(s, j + 2, acc \o e)
            ELSE IF e = "n" THEN ScanString(s, j + 2, acc \o "\n")
            ELSE IF e = "t" THEN ScanString(s, j + 2, acc \o "\t")
            ELSE IF e = "r" THEN ScanString(s, j + 2, acc \o "\r")
            ELSE IF e = "f" THEN ScanString(s, j + 2, acc \o "\f")
            ELSE IF e = "b" THEN ScanString(s, j + 2, acc \o CharOfCode(8))
            ELSE IF e = "u" /\ \A k \in 2..5 : IsHex(CharAt(s, j + k)) THEN
                ScanString(s, j + 6, acc \o CharOfCode(
                    4096 * HexValue(CharAt(s, j + 2)) + 256 * HexValue(CharAt(s, j + 3))
                        + 16 * HexValue(CharAt(s, j + 4)) + HexValue(CharAt(s, j + 5))))
            ELSE ParseFail
        ELSE IF codePointAt[c] < 32 THEN ParseFail
        ELSE LET Plain(k) == CharAt(s, k) \notin {"", "\"", "\\"}
                                /\ codePointAt[CharAt(s, k)] >= 32
                 Run(last) == ScanString(s, last + 1, acc \o SubSeq(s, j, last))
             IN  Run(CHOOSE k \in j..Len(s) :
                        /\ ~Plain(k + 1)
                        /\ \A m \in j..k : Plain(m))

\* a number literal starting at position i
ParseNumber(s, i) ==
    LET intStart  == IF CharAt(s, i) = "-" THEN i + 1 ELSE i
        intEnd    == IF CharAt(s, intStart) = "0" THEN intStart + 1
                     ELSE SkipDigits(s, intStart)
        fracEnd   == IF CharAt(s, intEnd) = "." THEN SkipDigits(s, intEnd + 1) ELSE intEnd
        fracOk    == CharAt(s, intEnd) # "." \/ fracEnd > intEnd + 1
        hasExp    == CharAt(s, fracEnd) \in {"e", "E"}
        expStart  == IF CharAt(s, fracEnd + 1) \in {"+", "-"}
                     THEN fracEnd + 2 ELSE fracEnd + 1
        expEnd    == IF hasExp THEN SkipDigits(s, expStart) ELSE fracEnd
        expOk     == ~hasExp \/ expEnd > expStart
        isZero    == \A k \in intStart..(fracEnd - 1) : CharAt(s, k) \in {"0", "."}
    IN  IF intEnd = intStart \/ ~fracOk \/ ~expOk THEN ParseFail
        ELSE ParsedValue(expEnd, "number", Slice(s, i, expEnd - 1), isZero)

RECURSIVE ParseValue(_, _)
RECURSIVE ParseElements(_, _, _)
RECURSIVE ParseMembers(_, _, _, _, _, _)

\* the elements of an array from position i on (start is its "[")
ParseElements(s, i, start) ==
    LET After(j) ==
            IF CharAt(s, j) = "," THEN ParseElements(s, j + 1, start)
            ELSE IF CharAt(s, j) = "]"
                THEN ParsedValue(j + 1, "array", Slice(s, start, j), FALSE)
            ELSE ParseFail
        Element(v) == IF ~v.ok THEN ParseFail ELSE After(SkipWs(s, v.pos))
    IN  Element(ParseValue(s, SkipWs(s, i)))

\* the members of an object from position i on (start is its "{"); ms are
\* the members met so far, c and m the members content and mode among them
\* (a later duplicate wins)
ParseMembers(s, i, start, c, m, ms) ==
    LET After(c2, m2, ms2, j) ==
            IF CharAt(s, j) = "," THEN ParseMembers(s, j + 1, start, c2, m2, ms2)
            ELSE IF CharAt(s, j) = "}"
                THEN [ParsedValue(j + 1, "object", Slice(s, start, j), FALSE)
                        EXCEPT !.content = c2, !.mode = m2, !.members = ms2]
            ELSE ParseFail
        Member(name, mem, j) ==
            After(IF name = "content" THEN mem ELSE c,
                  IF name = "mode" THEN mem ELSE m,
                  PutMember(ms, name, mem.kind, mem.str), j)
        Value(name, v) ==
            IF ~v.ok THEN ParseFail
            ELSE Member(name, [has |-> TRUE, kind |-> v.kind, str |-> v.str,
                               falsy |-> v.falsy], SkipWs(s, v.pos))
        Colon(key, colon) ==
            IF ~key.ok \/ CharAt(s, colon) # ":" THEN ParseFail
            ELSE Value(key.str, ParseValue(s, SkipWs(s, colon + 1)))
        Key(key) == Colon(key, SkipWs(s, key.pos))
        Name(k) == Key(IF CharAt(s, k) = "\"" THEN ScanString(s, k + 1, "") ELSE ParseFail)
    IN  Name(SkipWs(s, i))

\* the JSON value starting at position i (white space already skipped)
ParseValue(s, i) ==
    LET c == CharAt(s, i)
    IN  IF c = "\"" THEN ScanString(s, i + 1, "")
        ELSE IF c = "{" THEN
            IF CharAt(s, SkipWs(s, i + 1)) = "}"
            THEN ParsedValue(SkipWs(s, i + 1) + 1, "object",
                             Slice(s, i, SkipWs(s, i + 1)), FALSE)
            ELSE ParseMembers(s, i + 1, i, NoMember, NoMember, <<>>)
        ELSE IF c = "[" THEN
            IF CharAt(s, SkipWs(s, i + 1)) = "]"
            THEN ParsedValue(SkipWs(s, i + 1) + 1, "array",
                             Slice(s, i, SkipWs(s, i + 1)), FALSE)
            ELSE ParseElements(s, i + 1, i)
        ELSE IF c = "-" \/ c \in Digits THEN ParseNumber(s, i)
        ELSE IF Slice(s, i, i + 3) = "true" THEN ParsedValue(i + 4, "boolean", "true", FALSE)
        ELSE IF Slice(s, i, i + 4) = "false" THEN ParsedValue(i + 5, "boolean", "false", TRUE)
        ELSE IF Slice(s, i, i + 3) = "null" THEN ParsedValue(i + 4, "null", "null", TRUE)
        ELSE ParseFail

\* JSON.parse(s); ok = FALSE where it throws SyntaxError
JsonParse(s) ==
    LET Whole(v) == IF v.ok /\ SkipWs(s, v.pos) = Len(s) + 1 THEN v ELSE ParseFail
    IN  Whole(ParseValue(s, SkipWs(s, 1)))

DefaultState == [content |-> "", mode |-> "edit"]

\* a variant whose outer catch hands back its input as the content
decodeContentNoCatch(encoded, streamsOk) ==
    LET binary     == atob(encoded)
        inflated   == Gunzip(binary.bytes)
        jsonString == TextDecode(inflated.bytes)
        Validated(data) ==
            IF ~data.ok THEN [content |-> jsonString, mode |-> "edit"]
            ELSE IF data.kind \in {"object", "array"} /\ data.content.has
                THEN [content |-> IF data.content.falsy THEN "" ELSE data.content.str,
                      mode    |-> IF data.mode.falsy THEN "edit" ELSE data.mode.str]
            ELSE [content |-> jsonString, mode |-> "edit"]
    IN  IF encoded = "" THEN DefaultState
        ELSE IF ~streamsOk \/ ~binary.ok \/ ~inflated.ok
            THEN [content |-> encoded, mode |-> "edit"]
        ELSE Validated(JsonParse(jsonString))

\* a variant without the two legacy fallbacks
decodeContentNoLegacy(encoded, streamsOk) ==
    LET binary     == atob(encoded)
        inflated   == Gunzip(binary.bytes)
        jsonString == TextDecode(inflated.bytes)
        Validated(data) ==
            IF ~data.ok THEN DefaultState
            ELSE IF data.kind \in {"object", "array"} /\ data.content.has
                THEN [content |-> IF data.content.falsy THEN "" ELSE data.content.str,
                      mode    |-> IF data.mode.falsy THEN "edit" ELSE data.mode.str]
            ELSE DefaultState
    IN  IF encoded = "" THEN DefaultState
        ELSE IF ~streamsOk \/ ~binary.ok \/ ~inflated.ok
            THEN DefaultState
        ELSE Validated(JsonParse(jsonString))

\* decodeContent(encoded); streamsOk = FALSE is a run in which the
\* DecompressionStream is missing, so that the outer try block throws
decodeContent(encoded, streamsOk) ==
    LET binary     == atob(encoded)
        inflated   == Gunzip(binary.bytes)
        jsonString == TextDecode(inflated.bytes)
        Validated(data) ==
            IF ~data.ok THEN [content |-> jsonString, mode |-> "edit"]
            ELSE IF data.kind \in {"object", "array"} /\ data.content.has
                THEN [content |-> IF data.content.falsy THEN "" ELSE data.content.str,
                      mode    |-> IF data.mode.falsy THEN "edit" ELSE data.mode.str]
            ELSE [content |-> jsonString, mode |-> "edit"]
    IN  IF encoded = "" THEN DefaultState
        ELSE IF ~streamsOk \/ ~binary.ok \/ ~inflated.ok
            THEN DefaultState
        ELSE Validated(JsonParse(jsonString))

(***************************************************************************)
(* Bounds and inputs                                                       *)
(***************************************************************************)
\* longest text drawn for the codec, over CodecAlphabet
MaxTextLen == 2
\* in-flight asynchronous continuations of the editor
MaxPending == 2
\* entries of the browser's session history
MaxHistory == 2
\* recordings started in one run
MaxRecordings == 1

MAX_URL_LENGTH == 2048

CodecAlphabet == {"a", " ", "\"", "\\", "\n", "é", BomChar}

RECURSIVE TextsUpTo(_)
TextsUpTo(n) ==
    IF n = 0 THEN {""}
    ELSE TextsUpTo(n - 1) \cup { s \o c : s \in TextsUpTo(n - 1), c \in CodecAlphabet }

\* raw texts that are JSON texts themselves
JsonLikeTexts ==
    { "{\"content\":\"a\"}", "{\"content\":\"a\",\"mode\":\"view\"}",
      "{\"content\":\"\"}", "{\"content\":0,\"mode\":\"live\"}",
      "{\"mode\":\"live\"}", "{}", "[1]", "null", "true", "\"a\"", "-1.5e1",
      " {\"content\" : \"a\" }\n", "{\"content\":\"a\"", "[\"content\"]",
      "1", " 1 ", "€", "a€b", "plain text" }

CodecTexts == TextsUpTo(MaxTextLen) \cup JsonLikeTexts

RECURSIVE Repeat(_, _)
Repeat(c, n) ==
    IF n = 0 THEN ""
    ELSE IF n = 1 THEN c
    ELSE Repeat(c, n \div 2) \o Repeat(c, n - n \div 2)

\* length of a document whose payload is over the budget; its text stands
\* for one that does not compress
BigTextLen == 1510
BigText == Repeat("x", BigTextLen)

(***************************************************************************)
(* State                                                                   *)
(***************************************************************************)
VARIABLES
    \* React state of Editor
    markdownValue, previewMode, usagePercentage, isLimitReached,
    \* refs of Editor
    saveTimeoutRef, hasUnsavedChangesRef, lastSavedContentRef,
    currentContentRef, lastSavedModeRef, recordingCursorPositionRef,
    \* local of the listener effect
    hasMouseMoved,
    \* the browser: session history, pending timeouts, suspended async calls
    history, historyIndex, timers, pending,
    \* whether CompressionStream / DecompressionStream work in this browser
    pipelineOk,
    \* Recorder: its React state, the previewMode closed over by the
    \* onTranscription callback the running recording holds, the text that
    \* was rendered when it started, and the number of recordings so far
    isRecording, isTranscribing, recorderMode, recorderProvider, recorderContent, recordings,
    \* what the commit procedure did, in the state right after it ran
    lastCommit,
    \* React state of Recorder about its provider (recorderProvider above is
    \* what the callbacks of the running recording closed over of it)
    selectedProvider, providerConfig, configStatus, provider,
    \* window.localStorage, whether the module runs without a window, and the
    \* credential checks sent to a vendor so far
    localStorage, isTerminal, validationRequests,
    \* the codec exercised on its own, and the script position of a scenario
    probe, stage

editorVars ==
    <<markdownValue, previewMode, usagePercentage, isLimitReached,
      saveTimeoutRef, hasUnsavedChangesRef, lastSavedContentRef,
      currentContentRef, lastSavedModeRef, recordingCursorPositionRef,
      hasMouseMoved, history, historyIndex, timers, pending, pipelineOk,
      isRecording, isTranscribing, recorderMode, recorderProvider, recorderContent, recordings,
      lastCommit>>

configVars ==
    <<selectedProvider, providerConfig, configStatus, provider, localStorage,
      isTerminal, validationRequests>>

vars == <<editorVars, configVars, probe, stage>>

\* what a step of the provider configuration leaves alone in the editor
editorStateVars ==
    <<markdownValue, previewMode, usagePercentage, isLimitReached,
      saveTimeoutRef, hasUnsavedChangesRef, lastSavedContentRef,
      currentContentRef, lastSavedModeRef, recordingCursorPositionRef,
      hasMouseMoved, history, historyIndex, timers, pipelineOk,
      isRecording, isTranscribing, recorderMode, recorderProvider, recorderContent, recordings>>

\* window.location.hash.slice(1)
LocationHash == history[historyIndex]

(***************************************************************************)
(* The codec on its own: a text and a mode are drawn, a payload is made    *)
(* from them (by encodeContent, as a legacy payload, or damaged) and       *)
(* decodeContent is applied to it.                                         *)
(***************************************************************************)
IdleProbe ==
    [stage |-> "idle", text |-> "", mode |-> "edit", ok |-> TRUE,
     origin |-> "none", payload |-> "", result |-> DefaultState]

\* the state of a freshly constructed Editor at location hash h
EditorInit(h, ok) ==
    /\ markdownValue = ""
    /\ previewMode = "edit"
    /\ usagePercentage = 0
    /\ isLimitReached = FALSE
    /\ saveTimeoutRef = 0
    /\ hasUnsavedChangesRef = FALSE
    /\ lastSavedContentRef = ""
    /\ currentContentRef = ""
    /\ lastSavedModeRef = "edit"
    /\ recordingCursorPositionRef = 0
    /\ hasMouseMoved = FALSE
    /\ history = <<h>>
    /\ historyIndex = 1
    /\ timers = {}
    /\ pending = IF h # ""
                 THEN SetToBag({[kind |-> "load", content |-> "", mode |-> "edit", arg |-> h]})
                 ELSE EmptyBag
    /\ pipelineOk = ok
    /\ isRecording = FALSE
    /\ isTranscribing = FALSE
    /\ recorderMode = "edit"
    /\ recorderProvider = [configStatus |-> "idle", hasConfig |-> FALSE,
                           hasProvider |-> FALSE]
    /\ recorderContent = ""
    /\ recordings = 0
    /\ lastCommit = "none"

\* { apiKey }, the object handleConfigChange makes of a typed key
ApiKeyConfig(apiKey) ==
    ObjectValue(<<[name |-> "apiKey", kind |-> "string", str |-> apiKey]>>)

\* a key of the length of OpenAI's keys
ValidLengthKey == "sk-xxxxxxxxxxxxxxxxxxxxxxxxxxxxxxxxxxxxxxxxxxxxxxxx"

\* the Recorder in a browser that holds no credential, its provider made
RecorderIdle ==
    /\ selectedProvider = "openai"
    /\ providerConfig = NullValue
    /\ configStatus = "idle"
    /\ provider = "openai"
    /\ localStorage = <<>>
    /\ isTerminal = FALSE
    /\ validationRequests = {}

\* the Recorder after the vendor accepted the key typed for OpenAI
RecorderValid ==
    /\ selectedProvider = "openai"
    /\ providerConfig = ApiKeyConfig(ValidLengthKey)
    /\ configStatus = "valid"
    /\ provider = "openai"
    /\ localStorage =
          <<[key |-> "vark-provider-openai",
             value |-> "{\"apiKey\":\"" \o ValidLengthKey \o "\"}"]>>
    /\ isTerminal = FALSE
    /\ validationRequests = {[provider |-> "openai", apiKey |-> ValidLengthKey]}

InitCodec ==
    /\ EditorInit("", TRUE)
    /\ RecorderIdle
    /\ stage = "codec"
    /\ probe \in { [IdleProbe EXCEPT !.stage = "input", !.text = t, !.mode = m] :
                     t \in CodecTexts, m \in Modes }

\* encodeContent(text, mode), with or without a working pipeline
ProbeEncode ==
    /\ probe.stage = "input"
    /\ \E ok \in BOOLEAN :
         probe' = [probe EXCEPT !.stage = "payload", !.ok = ok,
                                !.origin = IF ok THEN "encode" ELSE "encodeFailed",
                                !.payload = encodeContent(probe.text, probe.mode, ok)]
    /\ UNCHANGED <<editorVars, configVars, stage>>

\* a payload of the legacy shape: base64(gzip(raw text))
ProbeLegacy ==
    /\ probe.stage = "input"
    /\ probe' = [probe EXCEPT !.stage = "payload", !.origin = "legacy",
                              !.payload = btoa(Gzip(TextEncode(probe.text)))]
    /\ UNCHANGED <<editorVars, configVars, stage>>

\* a string atob rejects: a character outside the base64 alphabet (the
\* URL-safe "-" and "_" are outside it too) put into a payload at position k
ProbeNotBase64 ==
    /\ probe.stage = "payload"
    /\ probe.origin \in {"encode", "legacy"}
    /\ \E k \in {0, Len(probe.payload) \div 2}, c \in {"!", "-"} :
         probe' = [probe EXCEPT !.origin = "notBase64",
                                !.payload = Slice(probe.payload, 1, k) \o c
                                    \o Slice(probe.payload, k + 1, Len(probe.payload))]
    /\ UNCHANGED <<editorVars, configVars, stage>>

\* valid base64 of bytes that are no gzip stream: the raw text itself
ProbeNotGzip ==
    /\ probe.stage = "input"
    /\ probe.text # ""
    /\ probe' = [probe EXCEPT !.stage = "payload", !.origin = "notGzip",
                              !.payload = btoa(TextEncode(probe.text))]
    /\ UNCHANGED <<editorVars, configVars, stage>>

\* valid base64 of a damaged gzip stream: cut short by k bytes, or byte k of
\* the magic number, the deflate block or the trailer changed
ProbeBadGzip ==
    /\ probe.stage = "payload"
    /\ probe.origin \in {"encode", "legacy"}
    /\ probe.payload # ""
    /\ LET gz == atob(probe.payload).bytes
       IN  \/ \E k \in {1, 8} :
                probe' = [probe EXCEPT !.origin = "badGzip",
                                       !.payload = btoa(SubSeq(gz, 1, Len(gz) - k))]
           \/ \E k \in {2, 11, 12, 16, Len(gz) - 7, Len(gz)} :
                probe' = [probe EXCEPT !.origin = "badGzip",
                                       !.payload = btoa([gz EXCEPT ![k] = (gz[k] + 1) % 256])]
    /\ UNCHANGED <<editorVars, configVars, stage>>

\* decodeContent(payload)
ProbeDecode ==
    /\ probe.stage = "payload"
    /\ probe' = [probe EXCEPT !.stage = "decoded",
                              !.result = decodeContent(probe.payload, TRUE)]
    /\ UNCHANGED <<editorVars, configVars, stage>>

NextCodec ==
    \/ ProbeEncode
    \/ ProbeLegacy
    \/ ProbeNotBase64
    \/ ProbeNotGzip
    \/ ProbeBadGzip
    \/ ProbeDecode

SpecCodec == InitCodec /\ [][NextCodec]_vars

(***************************************************************************)
(* The editor                                                              *)
(***************************************************************************)
\* texts the user types or pastes, and texts a provider returns
UserTexts == {"", "a", BigText}
Transcripts == {"x"}
\* locations the page is opened at: none, a saved document, a damaged one
InitialHashes == {"", encodeContent("a", "edit", TRUE), "dGVzdA=="}
\* caret positions of the textarea sampled when it loses focus
CursorPositions(text) == {0, Len(text)}

Continuation(kind, content, mode, arg) ==
    [kind |-> kind, content |-> content, mode |-> mode, arg |-> arg]

\* a continuation that waits for no stream: encodeContent returns at its
\* sentinel test, or the stream constructors are missing and throw at once
\* (every location of the model is valid base64, so atob does not throw).
\* It resumes in a microtask, before any other event is handled
MicrotaskOnly(c) ==
    \/ /\ c.kind \in {"change", "saveToUrl", "saveToUrlWithMode", "popstateUsage",
                      "loadUsage", "popstate", "load"}
       /\ \/ ~pipelineOk
          \/ /\ c.kind \notin {"popstate", "load"}
             /\ c.content = "" /\ c.mode = "edit"
    \/ c.kind = "validate" /\ ~c.network

\* the event loop takes its next task: no microtask is left
TaskMayRun == \A c \in BagToSet(pending) : ~MicrotaskOnly(c)
MayResume(c) == MicrotaskOnly(c) \/ TaskMayRun

Suspend(c) == pending (+) SetToBag({c})
Resume(c) == pending (-) SetToBag({c})
CanSuspend == BagCardinality(pending) < MaxPending

\* Math.round((urlLength / MAX_URL_LENGTH) * 100)
Percentage(urlLength) == (200 * urlLength + MAX_URL_LENGTH) \div (2 * MAX_URL_LENGTH)

\* const urlLength = encoded.length + 1 // +1 for the # character
UrlLength(encoded) == Len(encoded) + 1

\* a variant whose budget leaves no room for the # character
WithinBudgetStrict(encoded) == MAX_URL_LENGTH - UrlLength(encoded) > 0

WithinBudget(encoded) == MAX_URL_LENGTH - UrlLength(encoded) >= 0

\* characters /\s/ matches
JsWhitespace == {" ", "\t", "\n", "\r", "\f", BomChar}

\* a variant that puts a space on each side that has a neighbour at all
DictatedAlwaysSpaced(value, cursorPos, text) ==
    LET safeCursorPos == IF cursorPos < Len(value) THEN cursorPos ELSE Len(value)
        beforeCursor  == Slice(value, 1, safeCursorPos)
        afterCursor   == Slice(value, safeCursorPos + 1, Len(value))
        prefix        == IF Len(beforeCursor) > 0 THEN " " ELSE ""
        suffix        == IF Len(afterCursor) > 0 THEN " " ELSE ""
    IN  beforeCursor \o prefix \o text \o suffix \o afterCursor

\* handleTranscription: text put into currentValue at cursorPos, with a space
\* on each side that has a neighbour other than white space
Dictated(value, cursorPos, text) ==
    LET safeCursorPos    == IF cursorPos < Len(value) THEN cursorPos ELSE Len(value)
        beforeCursor     == Slice(value, 1, safeCursorPos)
        afterCursor      == Slice(value, safeCursorPos + 1, Len(value))
        needsSpaceBefore == Len(beforeCursor) > 0
                              /\ CharAt(beforeCursor, Len(beforeCursor)) \notin JsWhitespace
        needsSpaceAfter  == Len(afterCursor) > 0
                              /\ CharAt(afterCursor, 1) \notin JsWhitespace
        prefix           == IF needsSpaceBefore THEN " " ELSE ""
        suffix           == IF needsSpaceAfter THEN " " ELSE ""
    IN  beforeCursor \o prefix \o text \o suffix \o afterCursor

\* encodeContent(content, mode) and decodeContent(encoded) as this browser
\* computes them; the payloads of the texts the user enters, and of those
\* with one dictation in them, are tabulated
TabulatedTexts ==
    UserTexts \cup { Dictated(value, cursorPos, text) :
                        value \in UserTexts,
                        cursorPos \in UNION { CursorPositions(v) : v \in UserTexts },
                        text \in Transcripts }
EncodedTexts == [text \in TabulatedTexts, mode \in Modes |-> encodeContent(text, mode, TRUE)]
Encoded(content, mode) ==
    IF pipelineOk /\ content \in TabulatedTexts /\ mode \in Modes
    THEN EncodedTexts[content, mode]
    ELSE encodeContent(content, mode, pipelineOk)

KnownHashes ==
    InitialHashes \cup { h \in { EncodedTexts[text, mode] : text \in UserTexts, mode \in Modes } :
                            WithinBudget(h) }
DecodedHashes == [h \in KnownHashes |-> decodeContent(h, TRUE)]
Decoded(encoded) ==
    IF pipelineOk /\ encoded \in KnownHashes THEN DecodedHashes[encoded]
    ELSE decodeContent(encoded, pipelineOk)

\* the mode the toggle button and Ctrl+E switch to
NextMode(prev) ==
    CASE prev = "edit" -> "live"
      [] prev = "live" -> "view"
      [] prev = "view" -> "edit"
      [] OTHER -> "edit"

\* a variant of debouncedSave that leaves the earlier timer armed
TimersAfterDebounceKeeping(content, mode) ==
    LET id == CHOOSE i \in 1..(Cardinality(timers) + 1) : \A t \in timers : t.id # i
    IN  [timers |-> timers \cup {[id |-> id, content |-> content, mode |-> mode]},
         ref    |-> id]

\* the timers left and the id held after debouncedSave(content) of a
\* render whose previewMode is mode
TimersAfterDebounce(content, mode) ==
    LET kept == { t \in timers : t.id # saveTimeoutRef }
        id   == CHOOSE i \in 1..(Cardinality(kept) + 1) : \A t \in kept : t.id # i
    IN  [timers |-> kept \cup {[id |-> id, content |-> content, mode |-> mode]},
         ref    |-> id]

\* saveImmediately() of a render whose previewMode is mode
saveImmediately(mode) ==
    /\ timers' = { t \in timers : t.id # saveTimeoutRef }
    /\ saveTimeoutRef' = 0
    /\ pending' = IF hasUnsavedChangesRef /\ currentContentRef # ""
                  THEN Suspend(Continuation("saveToUrl", currentContentRef, mode, ""))
                  ELSE pending

\* handleContentChange(value) of a render whose previewMode is mode, up to
\* its await; base is the bag of continuations it adds its own to
handleContentChange(value, mode, base) ==
    /\ markdownValue' = value
    /\ currentContentRef' = value
    /\ IF value # lastSavedContentRef \/ mode # lastSavedModeRef
       THEN /\ hasUnsavedChangesRef' = TRUE
            /\ pending' = base (+) SetToBag({Continuation("change", value, mode, "")})
       ELSE /\ hasUnsavedChangesRef' = hasUnsavedChangesRef
            /\ pending' = base

\* the user edits the text (MDEditor shows its textarea in edit and live)
UserEdit ==
    /\ TaskMayRun
    /\ previewMode \in {"edit", "live"}
    /\ CanSuspend
    /\ \E value \in UserTexts :
         /\ value # markdownValue
         /\ handleContentChange(value, previewMode, pending)
    /\ UNCHANGED <<previewMode, usagePercentage, isLimitReached, saveTimeoutRef,
                   lastSavedContentRef, lastSavedModeRef, recordingCursorPositionRef,
                   hasMouseMoved, history, historyIndex, timers, pipelineOk,
                   isRecording, isTranscribing, recorderMode, recorderProvider, recorderContent,
                   recordings>>
    /\ lastCommit' = "none"

\* handleContentChange after its await: usage feedback, then debouncedSave
ChangeResume ==
    \E c \in BagToSet(pending) :
      /\ c.kind = "change"
      /\ MayResume(c)
      /\ LET encoded == Encoded(c.content, c.mode)
             armed   == TimersAfterDebounce(c.content, c.mode)
         IN  /\ usagePercentage' = Percentage(UrlLength(encoded))
             /\ isLimitReached' = (UrlLength(encoded) > MAX_URL_LENGTH)
             /\ timers' = armed.timers
             /\ saveTimeoutRef' = armed.ref
      /\ pending' = Resume(c)
      /\ UNCHANGED <<markdownValue, previewMode, hasUnsavedChangesRef,
                     lastSavedContentRef, currentContentRef, lastSavedModeRef,
                     recordingCursorPositionRef, hasMouseMoved, history,
                     historyIndex, pipelineOk, isRecording, isTranscribing,
                     recorderMode, recorderProvider, recorderContent, recordings>>
      /\ lastCommit' = "none"

\* the callback debouncedSave handed to setTimeout
DebounceTimerFires ==
    \E t \in timers :
      /\ TaskMayRun
      /\ timers' = timers \ {t}
      /\ IF hasUnsavedChangesRef
         THEN CanSuspend /\ pending' = Suspend(Continuation("saveToUrl", t.content, t.mode, ""))
         ELSE pending' = pending
      /\ UNCHANGED <<markdownValue, previewMode, usagePercentage, isLimitReached,
                     saveTimeoutRef, hasUnsavedChangesRef, lastSavedContentRef,
                     currentContentRef, lastSavedModeRef, recordingCursorPositionRef,
                     hasMouseMoved, history, historyIndex, pipelineOk, isRecording,
                     isTranscribing, recorderMode, recorderProvider, recorderContent, recordings>>
      /\ lastCommit' = "none"

\* the entries the session history may grow to: one more where going back
\* and forward over two commits is followed
HistoryBound ==
    IF stage \in {"history", "back", "forward"} THEN MaxHistory + 1 ELSE MaxHistory

\* a variant that leaves two entries per call
PushStateTwice(encoded) ==
    Append(Append(SubSeq(history, 1, historyIndex), encoded), encoded)

\* window.history.pushState(null, '', '#' + encoded)
PushState(encoded) == Append(SubSeq(history, 1, historyIndex), encoded)

\* a variant of the commit procedure that pushes without comparing
CommitEncodedAlwaysPush(content, mode) ==
    LET encoded == Encoded(content, mode)
    IN  /\ usagePercentage' = Percentage(UrlLength(encoded))
        /\ IF WithinBudget(encoded)
           THEN /\ isLimitReached' = FALSE
                /\ historyIndex < MaxHistory
                /\ history' = PushState(encoded)
                /\ historyIndex' = historyIndex + 1
                /\ lastCommit' = "pushed"
                /\ lastSavedContentRef' = content
                /\ lastSavedModeRef' = mode
                /\ hasUnsavedChangesRef' = FALSE
           ELSE /\ isLimitReached' = TRUE
                /\ lastCommit' = "overBudget"
                /\ UNCHANGED <<history, historyIndex, lastSavedContentRef,
                               lastSavedModeRef, hasUnsavedChangesRef>>

\* the commit procedure from the payload on: what saveToUrl and
\* saveToUrlWithMode do with encoded once encodeContent has returned it
CommitPayload(encoded, content, mode) ==
    /\ usagePercentage' = Percentage(UrlLength(encoded))
    /\ IF WithinBudget(encoded)
       THEN /\ isLimitReached' = FALSE
            /\ IF LocationHash # encoded
               THEN /\ historyIndex < HistoryBound
                    /\ history' = PushState(encoded)
                    /\ historyIndex' = historyIndex + 1
                    /\ lastCommit' = "pushed"
               ELSE /\ UNCHANGED <<history, historyIndex>>
                    /\ lastCommit' = "unchanged"
            /\ lastSavedContentRef' = content
            /\ lastSavedModeRef' = mode
            /\ hasUnsavedChangesRef' = FALSE
       ELSE /\ isLimitReached' = TRUE
            /\ lastCommit' = "overBudget"
            /\ UNCHANGED <<history, historyIndex, lastSavedContentRef,
                           lastSavedModeRef, hasUnsavedChangesRef>>

\* the commit procedure: saveToUrl and saveToUrlWithMode after their await
CommitEncoded(content, mode) == CommitPayload(Encoded(content, mode), content, mode)

SaveToUrlResume ==
    \E c \in BagToSet(pending) :
      /\ c.kind = "saveToUrl"
      /\ MayResume(c)
      /\ CommitEncoded(c.content, c.mode)
      /\ pending' = Resume(c)
      /\ UNCHANGED <<markdownValue, previewMode, saveTimeoutRef, currentContentRef,
                     recordingCursorPositionRef, hasMouseMoved, timers, pipelineOk,
                     isRecording, isTranscribing, recorderMode, recorderProvider, recorderContent,
                     recordings>>

SaveToUrlWithModeResume ==
    \E c \in BagToSet(pending) :
      /\ c.kind = "saveToUrlWithMode"
      /\ MayResume(c)
      /\ CommitEncoded(c.content, c.mode)
      /\ pending' = Resume(c)
      /\ UNCHANGED <<markdownValue, previewMode, saveTimeoutRef, currentContentRef,
                     recordingCursorPositionRef, hasMouseMoved, timers, pipelineOk,
                     isRecording, isTranscribing, recorderMode, recorderProvider, recorderContent,
                     recordings>>

\* handleBlur of the textarea: the caret is captured, then an immediate save
Blur ==
    /\ TaskMayRun
    /\ previewMode \in {"edit", "live"}
    /\ \E cursorPos \in CursorPositions(markdownValue) :
         recordingCursorPositionRef' = cursorPos
    /\ IF hasUnsavedChangesRef
       THEN CanSuspend /\ saveImmediately(previewMode)
       ELSE UNCHANGED <<timers, saveTimeoutRef, pending>>
    /\ UNCHANGED <<markdownValue, previewMode, usagePercentage, isLimitReached,
                   hasUnsavedChangesRef, lastSavedContentRef, currentContentRef,
                   lastSavedModeRef, hasMouseMoved, history, historyIndex,
                   pipelineOk, isRecording, isTranscribing, recorderMode, recorderProvider,
                   recorderContent, recordings>>
    /\ lastCommit' = "none"

\* handleMouseMove: the first movement since the last focus event
MouseMove ==
    /\ TaskMayRun
    /\ ~hasMouseMoved
    /\ hasMouseMoved' = TRUE
    /\ IF hasUnsavedChangesRef
       THEN CanSuspend /\ saveImmediately(previewMode)
       ELSE UNCHANGED <<timers, saveTimeoutRef, pending>>
    /\ UNCHANGED <<markdownValue, previewMode, usagePercentage, isLimitReached,
                   hasUnsavedChangesRef, lastSavedContentRef, currentContentRef,
                   lastSavedModeRef, recordingCursorPositionRef, history,
                   historyIndex, pipelineOk, isRecording, isTranscribing,
                   recorderMode, recorderProvider, recorderContent, recordings>>
    /\ lastCommit' = "none"

\* handleFocus
Focus ==
    /\ TaskMayRun
    /\ hasMouseMoved
    /\ hasMouseMoved' = FALSE
    /\ UNCHANGED <<markdownValue, previewMode, usagePercentage, isLimitReached,
                   saveTimeoutRef, hasUnsavedChangesRef, lastSavedContentRef,
                   currentContentRef, lastSavedModeRef, recordingCursorPositionRef,
                   history, historyIndex, timers, pending, pipelineOk, isRecording,
                   isTranscribing, recorderMode, recorderProvider, recorderContent, recordings>>
    /\ lastCommit' = "none"

\* the mode button or Ctrl+E, the render that follows (the listener effect is
\* set up anew, with a fresh hasMouseMoved) and the effect on previewMode
ToggleMode ==
    /\ TaskMayRun
    /\ previewMode' = NextMode(previewMode)
    /\ hasMouseMoved' = FALSE
    /\ IF previewMode' # lastSavedModeRef
       THEN /\ CanSuspend
            /\ pending' = Suspend(Continuation("saveToUrlWithMode", currentContentRef,
                                               previewMode', ""))
       ELSE pending' = pending
    /\ UNCHANGED <<markdownValue, usagePercentage, isLimitReached, saveTimeoutRef,
                   hasUnsavedChangesRef, lastSavedContentRef, currentContentRef,
                   lastSavedModeRef, recordingCursorPositionRef, history,
                   historyIndex, timers, pipelineOk, isRecording, isTranscribing,
                   recorderMode, recorderProvider, recorderContent, recordings>>
    /\ lastCommit' = "none"

\* the user goes back or forward in the session history: handlePopState
Navigate ==
    \E target \in {historyIndex - 1, historyIndex + 1} :
      /\ TaskMayRun
      /\ target \in 1..Len(history)
      /\ historyIndex' = target
      /\ IF history[target] # ""
         THEN /\ CanSuspend
              /\ pending' = Suspend(Continuation("popstate", "", "edit", history[target]))
              /\ UNCHANGED <<markdownValue, previewMode, currentContentRef,
                             lastSavedContentRef, lastSavedModeRef,
                             hasUnsavedChangesRef, usagePercentage, isLimitReached,
                             hasMouseMoved>>
         ELSE /\ markdownValue' = ""
              /\ previewMode' = "edit"
              /\ currentContentRef' = ""
              /\ lastSavedContentRef' = ""
              /\ lastSavedModeRef' = "edit"
              /\ hasUnsavedChangesRef' = FALSE
              /\ usagePercentage' = 0
              /\ isLimitReached' = FALSE
              /\ hasMouseMoved' = (hasMouseMoved /\ previewMode = "edit")
              /\ pending' = pending
      /\ UNCHANGED <<saveTimeoutRef, recordingCursorPositionRef, history, timers,
                     pipelineOk, isRecording, isTranscribing, recorderMode, recorderProvider,
                     recorderContent, recordings>>
      /\ lastCommit' = "none"

\* the then-callback of decodeContent(hash) in handlePopState, to its await
PopStateDecodedFor(c) ==
      /\ c.kind = "popstate"
      /\ MayResume(c)
      /\ \E decodedData \in {Decoded(c.arg)} :
             IF decodedData.content # "" \/ decodedData.mode # "edit"
             THEN /\ markdownValue' = decodedData.content
                  /\ previewMode' = decodedData.mode
                  /\ currentContentRef' = decodedData.content
                  /\ lastSavedContentRef' = decodedData.content
                  /\ lastSavedModeRef' = decodedData.mode
                  /\ hasUnsavedChangesRef' = FALSE
                  /\ hasMouseMoved' = (hasMouseMoved /\ previewMode = decodedData.mode)
                  /\ pending' = Resume(c) (+) SetToBag({Continuation("popstateUsage",
                                    decodedData.content, decodedData.mode, "")})
             ELSE /\ pending' = Resume(c)
                  /\ UNCHANGED <<markdownValue, previewMode, currentContentRef,
                                 lastSavedContentRef, lastSavedModeRef,
                                 hasUnsavedChangesRef, hasMouseMoved>>
      /\ UNCHANGED <<usagePercentage, isLimitReached, saveTimeoutRef,
                     recordingCursorPositionRef, history, historyIndex, timers,
                     pipelineOk, isRecording, isTranscribing, recorderMode, recorderProvider,
                     recorderContent, recordings>>
      /\ lastCommit' = "none"

PopStateDecoded == \E c \in BagToSet(pending) : PopStateDecodedFor(c)

\* the then-callback of decodeContent(hash) in the load effect, to its await
LoadDecoded ==
    \E c \in BagToSet(pending) :
      /\ c.kind = "load"
      /\ MayResume(c)
      /\ \E decodedData \in {Decoded(c.arg)} :
             IF decodedData.content # "" \/ decodedData.mode # "edit"
             THEN /\ markdownValue' = decodedData.content
                  /\ previewMode' = decodedData.mode
                  /\ currentContentRef' = decodedData.content
                  /\ lastSavedContentRef' = decodedData.content
                  /\ lastSavedModeRef' = decodedData.mode
                  /\ hasMouseMoved' = (hasMouseMoved /\ previewMode = decodedData.mode)
                  /\ pending' = Resume(c) (+) SetToBag({Continuation("loadUsage",
                                    decodedData.content, decodedData.mode, "")})
             ELSE /\ pending' = Resume(c)
                  /\ UNCHANGED <<markdownValue, previewMode, currentContentRef,
                                 lastSavedContentRef, lastSavedModeRef, hasMouseMoved>>
      /\ UNCHANGED <<usagePercentage, isLimitReached, saveTimeoutRef,
                     hasUnsavedChangesRef, recordingCursorPositionRef, history,
                     historyIndex, timers, pipelineOk, isRecording, isTranscribing,
                     recorderMode, recorderProvider, recorderContent, recordings>>
      /\ lastCommit' = "none"

\* the usage feedback both then-callbacks end with, after their await
UsageFeedback(kind) ==
    \E c \in BagToSet(pending) :
      /\ c.kind = kind
      /\ MayResume(c)
      /\ LET encoded == Encoded(c.content, c.mode)
         IN  /\ usagePercentage' = Percentage(UrlLength(encoded))
             /\ isLimitReached' = (UrlLength(encoded) > MAX_URL_LENGTH)
      /\ pending' = Resume(c)
      /\ UNCHANGED <<markdownValue, previewMode, saveTimeoutRef,
                     hasUnsavedChangesRef, lastSavedContentRef, currentContentRef,
                     lastSavedModeRef, recordingCursorPositionRef, hasMouseMoved,
                     history, historyIndex, timers, pipelineOk, isRecording,
                     isTranscribing, recorderMode, recorderProvider, recorderContent, recordings>>
      /\ lastCommit' = "none"

PopStateUsageResume == UsageFeedback("popstateUsage")
LoadUsageResume == UsageFeedback("loadUsage")

(***************************************************************************)
(* The recorder, as far as it drives the editor                            *)
(***************************************************************************)
\* a variant that turns down a click only while the key is being validated
MicrophoneEnabledUnlessValidating == configStatus # "validating"

\* handleMicrophoneClick goes on to start or stop a recording
MicrophoneEnabled == configStatus \in {"valid", "restricted"}

\* handleMicrophoneClick while idle: startRecording calls onRecordingStart,
\* that is triggerImmediateSave, and keeps this render's callbacks
StartRecording ==
    /\ TaskMayRun
    /\ MicrophoneEnabled
    /\ ~isRecording /\ ~isTranscribing
    /\ recordings < MaxRecordings
    /\ CanSuspend
    /\ saveImmediately(previewMode)
    /\ isRecording' = TRUE
    /\ recorderMode' = previewMode
    /\ recorderProvider' = [configStatus |-> configStatus,
                            hasConfig |-> ~providerConfig.falsy,
                            hasProvider |-> provider # "none"]
    /\ recorderContent' = markdownValue
    /\ recordings' = recordings + 1
    /\ UNCHANGED <<markdownValue, previewMode, usagePercentage, isLimitReached,
                   hasUnsavedChangesRef, lastSavedContentRef, currentContentRef,
                   lastSavedModeRef, recordingCursorPositionRef, hasMouseMoved,
                   history, historyIndex, pipelineOk, isTranscribing>>
    /\ lastCommit' = "none"

\* the first test of transcribeAudio, on the state its render closed over
TranscriptionEnabled ==
    /\ recorderProvider.configStatus \in {"valid", "restricted"}
    /\ recorderProvider.hasConfig
    /\ recorderProvider.hasProvider

\* handleMicrophoneClick while recording: stopRecording, then the recorder's
\* onstop handler enters transcribeAudio up to its await
StopRecording ==
    /\ TaskMayRun
    /\ MicrophoneEnabled
    /\ isRecording
    /\ CanSuspend
    /\ isRecording' = FALSE
    /\ IF TranscriptionEnabled
       THEN /\ isTranscribing' = TRUE
            /\ pending' = Suspend(Continuation("transcribe", "", recorderMode, ""))
       ELSE /\ isTranscribing' = isTranscribing
            /\ pending' = pending
    /\ UNCHANGED <<markdownValue, previewMode, usagePercentage, isLimitReached,
                   saveTimeoutRef, hasUnsavedChangesRef, lastSavedContentRef,
                   currentContentRef, lastSavedModeRef, recordingCursorPositionRef,
                   hasMouseMoved, history, historyIndex, timers, pipelineOk,
                   recorderMode, recorderProvider, recorderContent, recordings>>
    /\ lastCommit' = "none"

\* the ways provider.transcribe settles: with a text, with nothing but
\* white space, or rejecting with an error of one of the categories
TranscriptionOutcomes ==
    { [kind |-> "text", text |-> t] : t \in Transcripts }
        \cup {[kind |-> "empty", text |-> ""]}
        \cup { [kind |-> "error", text |-> e] :
                    e \in {"auth", "quota-or-restriction", "network", "format"} }

\* a variant whose catch block hands the error text to onTranscription
TranscribeSettlesWithErrorText(c, outcome) ==
      /\ c.kind = "transcribe"
      /\ MayResume(c)
      /\ pending' = IF outcome.kind \in {"text", "error"}
                    THEN Resume(c) (+) SetToBag({Continuation("deliver", "", c.mode,
                                                              outcome.text)})
                    ELSE Resume(c)
      /\ isTranscribing' = FALSE
      /\ UNCHANGED <<markdownValue, previewMode, usagePercentage, isLimitReached,
                     saveTimeoutRef, hasUnsavedChangesRef, lastSavedContentRef,
                     currentContentRef, lastSavedModeRef, recordingCursorPositionRef,
                     hasMouseMoved, history, historyIndex, timers, pipelineOk,
                     isRecording, recorderMode, recorderProvider, recorderContent, recordings>>
      /\ lastCommit' = "none"

\* provider.transcribe settles: a text is handed to a 50 ms timeout, an
\* empty result or an error is only reported
TranscribeSettlesWith(c, outcome) ==
      /\ c.kind = "transcribe"
      /\ MayResume(c)
      /\ pending' = IF outcome.kind = "text"
                    THEN Resume(c) (+) SetToBag({Continuation("deliver", "", c.mode,
                                                              outcome.text)})
                    ELSE Resume(c)
      /\ isTranscribing' = FALSE
      /\ UNCHANGED <<markdownValue, previewMode, usagePercentage, isLimitReached,
                     saveTimeoutRef, hasUnsavedChangesRef, lastSavedContentRef,
                     currentContentRef, lastSavedModeRef, recordingCursorPositionRef,
                     hasMouseMoved, history, historyIndex, timers, pipelineOk,
                     isRecording, recorderMode, recorderProvider, recorderContent, recordings>>
      /\ lastCommit' = "none"

TranscribeSettles ==
    \E c \in BagToSet(pending), outcome \in TranscriptionOutcomes :
        TranscribeSettlesWith(c, outcome)

\* a variant that reads the text rendered when the recording started
currentValueAtStart == recorderContent

\* const currentValue = currentContentRef.current || ''
currentValue == currentContentRef

\* the text handleTranscription(text) hands to handleContentChange
SplicedValue(text) == Dictated(currentValue, recordingCursorPositionRef, text)

\* the timeout of transcribeAudio calls onTranscription: handleTranscription
DeliverTranscription ==
    \E c \in BagToSet(pending) :
      /\ c.kind = "deliver"
      /\ MayResume(c)
      /\ handleContentChange(SplicedValue(c.arg), c.mode, Resume(c))
      /\ UNCHANGED <<previewMode, usagePercentage, isLimitReached, saveTimeoutRef,
                     lastSavedContentRef, lastSavedModeRef,
                     recordingCursorPositionRef, hasMouseMoved, history,
                     historyIndex, timers, pipelineOk, isRecording, isTranscribing,
                     recorderMode, recorderProvider, recorderContent, recordings>>
      /\ lastCommit' = "none"

(***************************************************************************)
(* The microphone button step by step. StartRecording and StopRecording    *)
(* above are the runs in which getUserMedia resolves and the recorder's    *)
(* stop event is dispatched before anything else happens; here the await   *)
(* of getUserMedia and the stop event are steps of their own.              *)
(***************************************************************************)
\* handleMicrophoneClick while idle: startRecording calls onRecordingStart
\* (saveImmediately) and awaits getUserMedia; what the handlers of this
\* render closed over waits with it
StartClick ==
    /\ TaskMayRun
    /\ MicrophoneEnabled
    /\ ~isTranscribing
    /\ ~isRecording
    /\ recordings < MaxRecordings + 1
    /\ timers' = { t \in timers : t.id # saveTimeoutRef }
    /\ saveTimeoutRef' = 0
    /\ pending' = (IF hasUnsavedChangesRef /\ currentContentRef # ""
                   THEN Suspend(Continuation("saveToUrl", currentContentRef, previewMode, ""))
                   ELSE pending)
                  (+) SetToBag({[kind |-> "getUserMedia", content |-> markdownValue,
                                 mode |-> previewMode, arg |-> "",
                                 provider |-> [configStatus |-> configStatus,
                                               hasConfig |-> ~providerConfig.falsy,
                                               hasProvider |-> provider # "none"]]})
    /\ BagCardinality(pending') <= MaxPending
    /\ recordings' = recordings + 1
    /\ UNCHANGED <<markdownValue, previewMode, usagePercentage, isLimitReached,
                   hasUnsavedChangesRef, lastSavedContentRef, currentContentRef,
                   lastSavedModeRef, recordingCursorPositionRef, hasMouseMoved,
                   history, historyIndex, pipelineOk, isRecording, isTranscribing,
                   recorderMode, recorderProvider, recorderContent>>
    /\ lastCommit' = "none"

\* startRecording after getUserMedia settled: the recorder is started and
\* held, or the refusal is reported
StartResume ==
    \E c \in BagToSet(pending), granted \in BOOLEAN :
      /\ c.kind = "getUserMedia"
      /\ MayResume(c)
      /\ pending' = Resume(c)
      /\ IF granted
         THEN /\ isRecording' = TRUE
              /\ recorderMode' = c.mode
              /\ recorderProvider' = c.provider
              /\ recorderContent' = c.content
         ELSE UNCHANGED <<isRecording, recorderMode, recorderProvider, recorderContent>>
      /\ UNCHANGED <<markdownValue, previewMode, usagePercentage, isLimitReached,
                     saveTimeoutRef, hasUnsavedChangesRef, lastSavedContentRef,
                     currentContentRef, lastSavedModeRef, recordingCursorPositionRef,
                     hasMouseMoved, history, historyIndex, timers, pipelineOk,
                     isTranscribing, recordings>>
      /\ lastCommit' = "none"

\* handleMicrophoneClick while recording: stopRecording stops the recorder
\* it holds, whose stop event is then due
StopClick ==
    /\ TaskMayRun
    /\ MicrophoneEnabled
    /\ ~isTranscribing
    /\ isRecording
    /\ CanSuspend
    /\ isRecording' = FALSE
    /\ pending' = Suspend([kind |-> "stop", content |-> recorderContent,
                           mode |-> recorderMode, arg |-> "",
                           provider |-> recorderProvider])
    /\ UNCHANGED <<markdownValue, previewMode, usagePercentage, isLimitReached,
                   saveTimeoutRef, hasUnsavedChangesRef, lastSavedContentRef,
                   currentContentRef, lastSavedModeRef, recordingCursorPositionRef,
                   hasMouseMoved, history, historyIndex, timers, pipelineOk,
                   isTranscribing, recorderMode, recorderProvider, recorderContent,
                   recordings>>
    /\ lastCommit' = "none"

\* recorder.onstop: transcribeAudio of the render that started the
\* recorder, up to its await of provider.transcribe
RecorderOnStop ==
    \E c \in BagToSet(pending) :
      /\ c.kind = "stop"
      /\ MayResume(c)
      /\ IF /\ c.provider.configStatus \in {"valid", "restricted"}
            /\ c.provider.hasConfig
            /\ c.provider.hasProvider
         THEN /\ isTranscribing' = TRUE
              /\ pending' = Resume(c) (+) SetToBag({Continuation("transcribe", "",
                                                                 c.mode, "")})
         ELSE /\ isTranscribing' = isTranscribing
              /\ pending' = Resume(c)
      /\ UNCHANGED <<markdownValue, previewMode, usagePercentage, isLimitReached,
                     saveTimeoutRef, hasUnsavedChangesRef, lastSavedContentRef,
                     currentContentRef, lastSavedModeRef, recordingCursorPositionRef,
                     hasMouseMoved, history, historyIndex, timers, pipelineOk,
                     isRecording, recorderMode, recorderProvider, recorderContent,
                     recordings>>
      /\ lastCommit' = "none"

(***************************************************************************)
(* UniversalStorage: the credentials of the providers in localStorage      *)
(* (localStorage is the sequence of its entries in the order key(i)        *)
(* numbers them, which is the order they were first set in)                *)
(***************************************************************************)
ProviderTypes == {"openai", "google"}

\* the value JSON.parse returned, from what the parser found
JsonValue(data) ==
    IF data.kind = "object" THEN ObjectValue(data.members)
    ELSE [kind |-> data.kind, falsy |-> data.falsy, str |-> data.str, members |-> <<>>]

\* the members of an object as JSON.stringify writes them, from member k on
RECURSIVE JsonStringifyMembers(_, _)
JsonStringifyMembers(ms, k) ==
    IF k > Len(ms) THEN ""
    ELSE (IF k > 1 THEN "," ELSE "")
            \o JsonQuote(ms[k].name) \o ":"
            \o (IF ms[k].kind = "string" THEN JsonQuote(ms[k].str) ELSE ms[k].str)
            \o JsonStringifyMembers(ms, k + 1)

\* JSON.stringify(config)
JsonStringifyConfig(config) ==
    IF config.kind = "object" THEN "{" \o JsonStringifyMembers(config.members, 1) \o "}"
    ELSE IF config.kind = "string" THEN JsonQuote(config.str)
    ELSE config.str

\* private storagePrefix = 'vark-provider-'
storagePrefix == "vark-provider-"

\* localStorage.getItem(key)
getItem(key) ==
    IF \E k \in 1..Len(localStorage) : localStorage[k].key = key
    THEN [has |-> TRUE,
          value |-> localStorage[CHOOSE k \in 1..Len(localStorage) :
                                    localStorage[k].key = key].value]
    ELSE [has |-> FALSE, value |-> ""]

\* a variant that leaves a key alone when it already has a value
setItemIfAbsent(key, value) ==
    IF \E k \in 1..Len(localStorage) : localStorage[k].key = key
    THEN localStorage
    ELSE Append(localStorage, [key |-> key, value |-> value])

\* the entries after localStorage.setItem(key, value)
setItem(key, value) ==
    IF \E k \in 1..Len(localStorage) : localStorage[k].key = key
    THEN [k \in 1..Len(localStorage) |->
            IF localStorage[k].key = key THEN [key |-> key, value |-> value]
            ELSE localStorage[k]]
    ELSE Append(localStorage, [key |-> key, value |-> value])

\* the entries after localStorage.removeItem(key)
removeItem(key) ==
    LET Other(entry) == entry.key # key
    IN  SelectSeq(localStorage, Other)

\* key.startsWith(prefix)
StartsWith(key, prefix) ==
    Len(key) >= Len(prefix) /\ SubSeq(key, 1, Len(prefix)) = prefix

\* key.replace(pattern, ''): the first occurrence of pattern is taken out
RECURSIVE ReplaceFirst(_, _, _)
ReplaceFirst(key, pattern, from) ==
    IF from + Len(pattern) - 1 > Len(key) THEN key
    ELSE IF SubSeq(key, from, from + Len(pattern) - 1) = pattern
        THEN SubSeq(key, 1, from - 1) \o SubSeq(key, from + Len(pattern), Len(key))
    ELSE ReplaceFirst(key, pattern, from + 1)

\* a variant whose JSON.parse is not inside a try block: the SyntaxError
\* leaves the method
RaisedValue == [kind |-> "raised", falsy |-> TRUE, str |-> "SyntaxError", members |-> <<>>]

getConfigFromLocalStorageNoCatch(providerType) ==
    LET Parsed(data) == IF data.ok THEN JsonValue(data) ELSE RaisedValue
        Read(stored) ==
            IF ~stored.has \/ stored.value = "" THEN NullValue
            ELSE Parsed(JsonParse(stored.value))
    IN  Read(getItem(storagePrefix \o providerType))

getConfigFromLocalStorage(providerType) ==
    LET Parsed(data) == IF data.ok THEN JsonValue(data) ELSE NullValue
        Read(stored) ==
            IF ~stored.has \/ stored.value = "" THEN NullValue
            ELSE Parsed(JsonParse(stored.value))
    IN  Read(getItem(storagePrefix \o providerType))

\* the entries after setConfigToLocalStorage(providerType, config)
setConfigToLocalStorage(providerType, config) ==
    setItem(storagePrefix \o providerType, JsonStringifyConfig(config))

\* a variant that clears the whole storage
removeConfigClearsStorage(providerType) == <<>>

\* the entries after removeConfigFromLocalStorage(providerType)
removeConfigFromLocalStorage(providerType) == removeItem(storagePrefix \o providerType)

\* the loop of getConfiguredProvidersFromLocalStorage from entry i on
RECURSIVE ConfiguredFrom(_)
ConfiguredFrom(i) ==
    IF i > Len(localStorage) THEN <<>>
    ELSE IF localStorage[i].key # "" /\ StartsWith(localStorage[i].key, storagePrefix)
        THEN <<ReplaceFirst(localStorage[i].key, storagePrefix, 1)>> \o ConfiguredFrom(i + 1)
    ELSE ConfiguredFrom(i + 1)

getConfiguredProvidersFromLocalStorage == ConfiguredFrom(1)

\* the public methods: in the terminal they go to the file-backed methods,
\* which are placeholders that warn, write nothing and find nothing
getProviderConfig(providerType) ==
    IF isTerminal THEN NullValue
    ELSE getConfigFromLocalStorage(providerType)

\* the entries of localStorage after setProviderConfig(providerType, config)
setProviderConfig(providerType, config) ==
    IF isTerminal THEN localStorage
    ELSE setConfigToLocalStorage(providerType, config)

\* the entries of localStorage after removeProviderConfig(providerType)
removeProviderConfig(providerType) ==
    IF isTerminal THEN localStorage
    ELSE removeConfigFromLocalStorage(providerType)

getConfiguredProviders ==
    IF isTerminal THEN <<>>
    ELSE getConfiguredProvidersFromLocalStorage

\* the configurations the callers store: a key, a key with a quote and a
\* backslash in it, and a key with a provider-specific option
Configs ==
    { ApiKeyConfig("k1"), ApiKeyConfig("k\"\\2"),
      ObjectValue(<<[name |-> "apiKey", kind |-> "string", str |-> "k3"],
                    [name |-> "extra", kind |-> "string", str |-> "data"]>>) }

\* the last call of the storage, the entries it found and what a read of
\* each provider gave before it
NoCall ==
    [op |-> "none", providerType |-> "", config |-> NullValue, before |-> <<>>,
     reads |-> [q \in ProviderTypes |-> NullValue]]

\* storage.setProviderConfig(providerType, config)
StorageSet(providerType, config) ==
    /\ localStorage' = setProviderConfig(providerType, config)
    /\ probe' = [op |-> "set", providerType |-> providerType, config |-> config,
                 before |-> localStorage,
                 reads |-> [q \in ProviderTypes |-> getProviderConfig(q)]]

\* storage.removeProviderConfig(providerType)
StorageRemove(providerType) ==
    /\ localStorage' = removeProviderConfig(providerType)
    /\ probe' = [op |-> "remove", providerType |-> providerType, config |-> NullValue,
                 before |-> localStorage,
                 reads |-> [q \in ProviderTypes |-> getProviderConfig(q)]]

\* localStorage.setItem(key, value) by other code of the page
ForeignWrite(key, value) ==
    /\ ~isTerminal
    /\ localStorage' = setItem(key, value)
    /\ probe' = [NoCall EXCEPT !.op = "foreign", !.before = localStorage]

(***************************************************************************)
(* Specifications                                                          *)
(***************************************************************************)
\* the page opened at any of the locations, in a browser with or without
\* working compression streams
Init ==
    /\ \E h \in InitialHashes, ok \in BOOLEAN : (ok \/ h = "") /\ EditorInit(h, ok)
    /\ RecorderIdle
    /\ probe = IdleProbe
    /\ stage = "free"

\* the editor in free use: typing, leaving the textarea, switching modes and
\* going back and forward, with every asynchronous step in any order
Next ==
    /\ \/ UserEdit
       \/ ChangeResume
       \/ DebounceTimerFires
       \/ SaveToUrlResume
       \/ SaveToUrlWithModeResume
       \/ Blur
       \/ ToggleMode
       \/ Navigate
       \/ PopStateDecoded
       \/ PopStateUsageResume
       \/ LoadDecoded
       \/ LoadUsageResume
    /\ UNCHANGED <<configVars, probe, stage>>

Spec == Init /\ [][Next]_vars

\* dictation: the recorder, the textarea and the saves they cause, in a page
\* opened without a document; stage tells how the last transcription settled
InitVoice ==
    /\ EditorInit("", TRUE)
    /\ RecorderValid
    /\ probe = IdleProbe
    /\ stage = "voice"

NextVoice ==
    /\ \/ UserEdit /\ stage' = stage
       \/ ChangeResume /\ stage' = stage
       \/ DebounceTimerFires /\ stage' = stage
       \/ SaveToUrlResume /\ stage' = stage
       \/ Blur /\ stage' = stage
       \/ StartRecording /\ stage' = stage
       \/ StopRecording /\ stage' = stage
       \/ \E c \in BagToSet(pending), outcome \in TranscriptionOutcomes :
            TranscribeSettlesWith(c, outcome) /\ stage' = outcome.kind
       \/ DeliverTranscription /\ stage' = stage
    /\ UNCHANGED <<configVars, probe>>

SpecVoice == InitVoice /\ [][NextVoice]_vars

\* one debounce window: the page is opened, the text is changed any number
\* of times and nothing else is done; once a debounce timer has expired no
\* further change is made
InitDebounce ==
    /\ \E h \in {"", EncodedTexts["a", "edit"]} : EditorInit(h, TRUE)
    /\ RecorderIdle
    /\ probe = IdleProbe
    /\ stage = IF pending = EmptyBag THEN "window" ELSE "loading"

NextDebounce ==
    /\ \/ LoadDecoded /\ stage' = stage
       \/ LoadUsageResume /\ stage' = "window"
       \/ stage = "window" /\ UserEdit /\ stage' = stage
       \/ ChangeResume /\ stage' = stage
       \/ DebounceTimerFires /\ stage' = "expired"
       \/ SaveToUrlResume /\ stage' = stage
    /\ UNCHANGED <<configVars, probe>>

SpecDebounce == InitDebounce /\ [][NextDebounce]_vars

\* one change followed by one immediate-save trigger: the page is opened, the
\* text is changed once and, unless the debounce timer expires first, the
\* textarea loses focus, the mouse moves or a recording is started
InitImmediate ==
    /\ \E h \in {"", EncodedTexts["a", "edit"]} : EditorInit(h, TRUE)
    /\ RecorderValid
    /\ probe = IdleProbe
    /\ stage = IF pending = EmptyBag THEN "loaded" ELSE "loading"

NextImmediate ==
    /\ \/ LoadDecoded /\ stage' = stage
       \/ LoadUsageResume /\ stage' = "loaded"
       \/ stage = "loaded" /\ UserEdit /\ stage' = "changed"
       \/ stage = "changed" /\ Blur /\ stage' = "triggered"
       \/ stage = "changed" /\ MouseMove /\ stage' = "triggered"
       \/ stage = "changed" /\ StartRecording /\ stage' = "triggered"
       \/ stage = "triggered" /\ Focus /\ stage' = stage
       \/ ChangeResume /\ stage' = stage
       \/ DebounceTimerFires /\ stage' = (IF stage = "changed" THEN "elapsed" ELSE stage)
       \/ SaveToUrlResume /\ stage' = stage
    /\ UNCHANGED <<configVars, probe>>

SpecImmediate == InitImmediate /\ [][NextImmediate]_vars

(***************************************************************************)
(* Properties of the codec, under SpecCodec                                *)
(***************************************************************************)
\* C1: for every text and every mode other than the pair ("", edit),
\* decodeContent of the payload encodeContent made returns exactly that
\* text and that mode
C1_RoundTrip ==
    (probe.stage = "decoded" /\ probe.origin = "encode"
        /\ ~(probe.text = "" /\ probe.mode = "edit"))
    => probe.result = [content |-> probe.text, mode |-> probe.mode]

\* a text of a quotation mark and a line feed, in live mode, has come back
C1_Witness ==
    /\ probe.stage = "decoded" /\ probe.origin = "encode"
    /\ probe.text = "\"\n" /\ probe.mode = "live"
    /\ probe.result = [content |-> "\"\n", mode |-> "live"]

\* C2: with a working pipeline the payload is empty exactly for the empty
\* text in edit mode; the empty text in live or view mode has a payload that
\* decodes to the empty text in that mode; the empty payload decodes to the
\* default state
C2_EmptySentinel ==
    /\ (probe.stage \in {"payload", "decoded"} /\ probe.origin = "encode")
         => ((probe.payload = "") <=> (probe.text = "" /\ probe.mode = "edit"))
    /\ (probe.stage = "decoded" /\ probe.origin = "encode"
           /\ probe.text = "" /\ probe.mode # "edit")
         => probe.result = [content |-> "", mode |-> probe.mode]
    /\ (probe.stage = "decoded" /\ probe.payload = "")
         => probe.result = DefaultState

\* the empty text in view mode got a payload and came back in view mode
C2_Witness ==
    /\ probe.stage = "decoded" /\ probe.origin = "encode"
    /\ probe.text = "" /\ probe.mode = "view"
    /\ probe.payload # ""
    /\ probe.result = [content |-> "", mode |-> "view"]

\* C3: decodeContent of a string that is not base64, or that is base64 of
\* bytes that are no intact gzip stream, is the default state
C3_CorruptInputSafe ==
    (probe.stage = "decoded" /\ probe.origin \in {"notBase64", "notGzip", "badGzip"})
    => probe.result = DefaultState

\* a gzip stream of a document with a damaged byte has been decoded
C3_Witness ==
    /\ probe.stage = "decoded" /\ probe.origin = "badGzip"
    /\ probe.text = "a" /\ probe.mode = "view"
    /\ probe.result = DefaultState

\* the raw text is the JSON text of an object with a member named content
IsWrapperText(text) ==
    LET data == JsonParse(text)
    IN  data.ok /\ data.kind = "object" /\ data.content.has

StartsWithBom(text) == Len(text) > 0 /\ CharAt(text, 1) = BomChar

\* C4 as stated: decodeContent of the legacy payload of any raw text,
\* JSON-like or not, returns that text in edit mode
C4_LegacyAnyText ==
    (probe.stage = "decoded" /\ probe.origin = "legacy")
    => probe.result = [content |-> probe.text, mode |-> "edit"]

\* C4, amended: decodeContent of the legacy payload of a raw text that does
\* not start with a byte order mark and is not the JSON text of an object
\* with a content member returns that text in edit mode
C4_LegacyPlainText ==
    (probe.stage = "decoded" /\ probe.origin = "legacy"
        /\ ~StartsWithBom(probe.text) /\ ~IsWrapperText(probe.text))
    => probe.result = [content |-> probe.text, mode |-> "edit"]

\* a raw text that is JSON (null) came back as text
C4_Witness ==
    /\ probe.stage = "decoded" /\ probe.origin = "legacy"
    /\ probe.text = "null"
    /\ probe.result = [content |-> "null", mode |-> "edit"]

(***************************************************************************)
(* Properties of the editor                                                *)
(***************************************************************************)
\* nothing is in flight and no timer is pending
Quiescent == pending = EmptyBag /\ timers = {}

\* the document on screen is what the location holds
LocationIsCurrent == LocationHash = Encoded(markdownValue, previewMode)

\* C5, under SpecDebounce: when changes were made within one debounce window
\* and the timer has expired, then, once everything has settled and the
\* document fits the budget, the location holds the encoding of the last
\* change and at most one entry was pushed
C5_DebounceCoalesces ==
    (stage = "expired" /\ Quiescent
        /\ WithinBudget(Encoded(markdownValue, previewMode)))
    => (LocationIsCurrent /\ Len(history) <= 2)

\* C6, under SpecImmediate: when one change was followed, before the debounce
\* timer expired, by an immediate-save trigger, then, once everything has
\* settled and the document fits the budget, the location holds the encoding
\* of the change and at most one entry was pushed
C6_ImmediateSavePreempts ==
    (stage = "triggered" /\ Quiescent
        /\ WithinBudget(Encoded(markdownValue, previewMode)))
    => (LocationIsCurrent /\ Len(history) <= 2)

\* C7, under Spec: a run of the commit procedure for an over-budget document
\* leaves the location and the history as they are, reports the limit as
\* reached, leaves the text in memory, marked unsaved, and arms no timer
C7_OverBudgetCommit ==
    [][lastCommit' = "overBudget" =>
          /\ history' = history /\ historyIndex' = historyIndex
          /\ isLimitReached'
          /\ markdownValue' = markdownValue /\ currentContentRef' = currentContentRef
          /\ hasUnsavedChangesRef'
          /\ timers' = timers /\ saveTimeoutRef' = saveTimeoutRef]_vars

\* C8, under Spec: when a back or forward navigation has been handled, the
\* document is decodeContent of the location navigated to (the default state
\* for an empty or undecodable one) and it is not marked unsaved
C8_NavigationRestores ==
    [][/\ (Navigate /\ LocationHash' = "")
            => /\ [content |-> markdownValue', mode |-> previewMode'] = DefaultState
               /\ ~hasUnsavedChangesRef'
       /\ \A c \in BagToSet(pending) :
            PopStateDecodedFor(c)
            => /\ [content |-> markdownValue', mode |-> previewMode'] = Decoded(c.arg)
               /\ ~hasUnsavedChangesRef']_vars

\* C9, under Spec: the commit procedure pushes an entry only when the encoded
\* value differs from the location, so no two adjacent history entries are
\* the same
C9_NoAdjacentDuplicates ==
    \A i \in 1..(Len(history) - 1) : history[i] # history[i + 1]

\* the commit procedure has just found the location up to date
C9_Witness ==
    /\ lastCommit = "unchanged"
    /\ LocationHash = Encoded(lastSavedContentRef, lastSavedModeRef)
    /\ LocationHash # ""

\* C10, under SpecVoice: a delivered transcription is put into the document
\* as it is at that moment, at the captured caret: what is on either side
\* of the insertion is that document, whatever the user did to it since the
\* recording started
C10_SpliceIntoCurrent ==
    [][DeliverTranscription =>
          LET k == IF recordingCursorPositionRef < Len(markdownValue)
                   THEN recordingCursorPositionRef ELSE Len(markdownValue)
          IN  \E text \in Transcripts, before \in {"", " "}, after \in {"", " "} :
                markdownValue' = Slice(markdownValue, 1, k) \o before \o text
                                   \o after \o Slice(markdownValue, k + 1, Len(markdownValue))]_vars

\* the recording started on an empty document, the user then typed "a", and
\* the transcription was put next to it
C10_Witness ==
    /\ recorderContent = ""
    /\ markdownValue \in {"a x", "x a"}

(***************************************************************************)
(* The providers (their code is not part of the sources: createProvider    *)
(* and validateConfig follow the specification and the tests)              *)
(***************************************************************************)
\* a variant that falls back to the OpenAI provider for an unknown type
createProviderWithDefault(type) ==
    IF type = "google"
    THEN [ok |-> TRUE, name |-> "google", displayName |-> "Google Cloud Speech-to-Text",
          message |-> ""]
    ELSE [ok |-> TRUE, name |-> "openai", displayName |-> "OpenAI Whisper", message |-> ""]

\* createProvider(type): the instance, or the error it rejects with
createProvider(type) ==
    IF type = "openai"
    THEN [ok |-> TRUE, name |-> "openai", displayName |-> "OpenAI Whisper", message |-> ""]
    ELSE IF type = "google"
    THEN [ok |-> TRUE, name |-> "google", displayName |-> "Google Cloud Speech-to-Text",
          message |-> ""]
    ELSE [ok |-> FALSE, name |-> "none", displayName |-> "",
          message |-> "Unknown provider: " \o type]

\* a variant that asks the vendor about every key
validateConfigAlwaysAsks(providerType, apiKey) ==
    { [result |-> r, network |-> TRUE] : r \in {"true", "restricted", "false", "throws"} }

\* validateConfig({apiKey}) of a provider: the ways it can settle, and
\* whether it called the vendor. An empty key, and for OpenAI a key as short
\* as 'sk-short', is refused at once; an OpenAI key of the length of a real
\* one, and any other key for Google, is sent to the vendor; for the lengths
\* in between the sources do not tell
validateConfig(providerType, apiKey) ==
    LET short == apiKey = "" \/ (providerType = "openai" /\ Len(apiKey) <= Len("sk-short"))
        long == apiKey # ""
                  /\ (providerType = "openai" => Len(apiKey) >= Len(ValidLengthKey))
    IN  (IF long THEN {} ELSE {[result |-> "false", network |-> FALSE]})
            \cup (IF short THEN {}
                  ELSE { [result |-> r, network |-> TRUE] :
                            r \in {"true", "restricted", "false", "throws"} })

(***************************************************************************)
(* Recorder: the selection of a provider and the validation of its key     *)
(***************************************************************************)
\* config.apiKey as a condition and as a string
apiKeyOf(config) ==
    IF config.kind = "object"
          /\ \E k \in 1..Len(config.members) :
                config.members[k].name = "apiKey" /\ config.members[k].kind = "string"
    THEN config.members[CHOOSE k \in 1..Len(config.members) :
                            config.members[k].name = "apiKey"].str
    ELSE ""

\* validateProviderConfig(config, providerInstance) up to its await, called
\* by a render whose selectedProvider is selected; rest is what else waits
validateProviderConfig(config, providerInstance, selected, rest) ==
    IF apiKeyOf(config) = ""
    THEN /\ configStatus' = "idle"
         /\ pending' = rest
         /\ validationRequests' = validationRequests
    ELSE /\ configStatus' = "validating"
         /\ IF providerInstance = "none"
            THEN pending' = rest /\ validationRequests' = validationRequests
            ELSE \E network \in { r.network :
                                    r \in validateConfig(providerInstance, apiKeyOf(config)) } :
                  /\ pending' = rest (+) SetToBag({
                        [kind |-> "validate", content |-> "", mode |-> "edit", arg |-> "",
                         config |-> config, instance |-> providerInstance,
                         selected |-> selected, network |-> network]})
                  /\ validationRequests' =
                        IF network
                        THEN validationRequests
                                \cup {[provider |-> providerInstance,
                                       apiKey |-> apiKeyOf(config)]}
                        ELSE validationRequests

\* the Recorder is mounted, or handleProviderChange selects another provider:
\* the render is followed by the two effects of selectedProvider, the first
\* up to its await of createProvider
ProviderSelected(providerType) ==
    /\ TaskMayRun
    /\ \/ stage = "rendered" /\ providerType = selectedProvider
       \/ stage = "mounted" /\ providerType # selectedProvider
    /\ CanSuspend
    /\ stage' = "mounted"
    /\ selectedProvider' = providerType
    /\ pending' = Suspend([kind |-> "initialize", content |-> "", mode |-> "edit",
                           arg |-> "", selected |-> providerType])
    /\ \E savedConfig \in {getProviderConfig(providerType)} :
            providerConfig' = IF savedConfig.falsy THEN providerConfig ELSE savedConfig
    /\ UNCHANGED <<configStatus, provider, localStorage, isTerminal, validationRequests>>

\* initializeProvider after createProvider settled
InitializeResume ==
    \E c \in BagToSet(pending) :
      /\ c.kind = "initialize"
      /\ MayResume(c)
      /\ \E newProvider \in {createProvider(c.selected)},
            config \in {getProviderConfig(c.selected)} :
            IF newProvider.ok
            THEN /\ provider' = newProvider.name
                 /\ IF config.falsy
                    THEN /\ providerConfig' = NullValue
                         /\ configStatus' = "idle"
                         /\ pending' = Resume(c)
                         /\ validationRequests' = validationRequests
                    ELSE /\ providerConfig' = config
                         /\ validateProviderConfig(config, newProvider.name, c.selected,
                                                   Resume(c))
            ELSE /\ provider' = "none"
                 /\ pending' = Resume(c)
                 /\ UNCHANGED <<providerConfig, configStatus, validationRequests>>
      /\ UNCHANGED <<selectedProvider, localStorage, isTerminal, stage>>

\* a variant that takes restricted for a refusal
StatusAfterTwoWay(validationResult) ==
    IF validationResult = "true" THEN "valid" ELSE "invalid"

\* the status validateProviderConfig sets for what validateConfig gave
StatusAfter(validationResult) ==
    IF validationResult = "true" THEN "valid"
    ELSE IF validationResult = "restricted" THEN "restricted"
    ELSE "invalid"

\* a variant that stores the configuration whatever validateConfig gave
ValidateResumeStoringAny ==
    \E c \in BagToSet(pending) :
      /\ c.kind = "validate"
      /\ MayResume(c)
      /\ \E r \in { x \in validateConfig(c.instance, apiKeyOf(c.config)) :
                        x.network = c.network } :
          /\ configStatus' = StatusAfter(r.result)
          /\ localStorage' = setProviderConfig(c.selected, c.config)
          /\ probe' = [NoCall EXCEPT !.op = r.result, !.providerType = c.selected,
                                     !.config = c.config, !.before = localStorage]
      /\ pending' = Resume(c)
      /\ UNCHANGED <<selectedProvider, providerConfig, provider, isTerminal,
                     validationRequests, stage>>

\* validateProviderConfig after validateConfig settled
ValidateResume ==
    \E c \in BagToSet(pending) :
      /\ c.kind = "validate"
      /\ MayResume(c)
      /\ \E r \in { x \in validateConfig(c.instance, apiKeyOf(c.config)) :
                        x.network = c.network } :
          /\ configStatus' = StatusAfter(r.result)
          /\ localStorage' = IF r.result \in {"true", "restricted"}
                             THEN setProviderConfig(c.selected, c.config)
                             ELSE removeProviderConfig(c.selected)
          /\ probe' = [NoCall EXCEPT !.op = r.result, !.providerType = c.selected,
                                     !.config = c.config, !.before = localStorage]
      /\ pending' = Resume(c)
      /\ UNCHANGED <<selectedProvider, providerConfig, provider, isTerminal,
                     validationRequests, stage>>

\* handleMicrophoneClick while the status is idle, validating or invalid: a
\* toast is shown and the handler returns; probe tells of the refusal
MicrophoneRefused ==
    /\ TaskMayRun
    /\ ~MicrophoneEnabled
    /\ probe' = [NoCall EXCEPT !.op = "refused"]
    /\ lastCommit' = "none"
    /\ UNCHANGED <<editorStateVars, pending, configVars, stage>>

\* handleConfigChange('apiKey', value) in the open configuration field; probe
\* tells when the field was cleared
ConfigInput(value) ==
    /\ TaskMayRun
    /\ stage = "mounted"
    /\ CanSuspend
    /\ providerConfig' = ApiKeyConfig(value)
    /\ probe' = IF value = ""
                THEN [NoCall EXCEPT !.op = "cleared", !.providerType = selectedProvider,
                                    !.before = localStorage]
                ELSE NoCall
    /\ IF value = ""
       THEN /\ configStatus' = "idle"
            /\ localStorage' = removeProviderConfig(selectedProvider)
            /\ UNCHANGED <<pending, validationRequests>>
       ELSE /\ validateProviderConfig(ApiKeyConfig(value), provider, selectedProvider,
                                      pending)
            /\ localStorage' = localStorage
    /\ UNCHANGED <<selectedProvider, provider, isTerminal, stage>>

\* the storage alone, in the browser and in the terminal; probe holds the
\* last call and the entries it found
InitStorage ==
    /\ EditorInit("", TRUE)
    /\ selectedProvider = "openai" /\ providerConfig = NullValue
    /\ configStatus = "idle" /\ provider = "openai" /\ validationRequests = {}
    /\ isTerminal \in BOOLEAN
    /\ localStorage = <<>>
    /\ probe = NoCall
    /\ stage = "storage"

NextStorage ==
    /\ \/ \E providerType \in ProviderTypes, config \in Configs :
            StorageSet(providerType, config)
       \/ \E providerType \in ProviderTypes : StorageRemove(providerType)
       \/ \E key \in {"other-key", "vark-other", "vark-provider-openai"},
             value \in {"not-json{", "value", "{\"apiKey\":\"old\"}"} :
            ForeignWrite(key, value)
    /\ UNCHANGED <<editorVars, selectedProvider, providerConfig, configStatus, provider,
                   isTerminal, validationRequests, stage>>

SpecStorage == InitStorage /\ [][NextStorage]_vars

\* one navigation: the editor in free use until, with the document marked
\* unsaved, the user goes back or forward; from then on nothing is typed or
\* toggled and only what is already under way goes on
NextNavigation ==
    /\ \/ stage = "free" /\ UserEdit /\ stage' = stage
       \/ stage = "free" /\ Blur /\ stage' = stage
       \/ stage = "free" /\ ToggleMode /\ stage' = stage
       \/ stage = "free" /\ hasUnsavedChangesRef /\ Navigate /\ stage' = "navigated"
       \/ ChangeResume /\ stage' = stage
       \/ DebounceTimerFires /\ stage' = stage
       \/ SaveToUrlResume /\ stage' = stage
       \/ SaveToUrlWithModeResume /\ stage' = stage
       \/ PopStateDecoded /\ stage' = stage
       \/ PopStateUsageResume /\ stage' = stage
       \/ LoadDecoded /\ stage' = stage
       \/ LoadUsageResume /\ stage' = stage
    /\ UNCHANGED <<configVars, probe>>

SpecNavigation == Init /\ [][NextNavigation]_vars

\* commits, then back and forward: the page is opened without a document and
\* used freely; once everything has settled the user goes back and forward,
\* each time after the navigation before has settled, and edits no more;
\* probe holds the history and the index before the last step
InitHistory ==
    /\ EditorInit("", TRUE)
    /\ RecorderIdle
    /\ probe = [before |-> <<"">>, index |-> 1]
    /\ stage = "history"

NextHistory ==
    /\ \/ stage = "history" /\ UserEdit /\ stage' = stage
       \/ stage = "history" /\ ToggleMode /\ stage' = stage
       \/ ChangeResume /\ stage' = stage
       \/ DebounceTimerFires /\ stage' = stage
       \/ SaveToUrlResume /\ stage' = stage
       \/ SaveToUrlWithModeResume /\ stage' = stage
       \/ /\ Quiescent
          /\ Navigate
          /\ stage' = (IF historyIndex' < historyIndex THEN "back" ELSE "forward")
       \/ PopStateDecoded /\ stage' = stage
       \/ PopStateUsageResume /\ stage' = stage
    /\ probe' = [before |-> history, index |-> historyIndex]
    /\ UNCHANGED configVars

SpecHistory == InitHistory /\ [][NextHistory]_vars

\* the usage metric on its own: payloads of the lengths on both sides of a
\* rounding step (0 to 1, 1 to 2, 99 to 100, 100 to 101 percent) and of the
\* budget are measured as handleContentChange measures
\* them, and committed; probe holds the last length, the one before it and
\* what the page showed and held before
InitUsage ==
    /\ EditorInit("", TRUE)
    /\ RecorderIdle
    /\ probe = [op |-> "none", length |-> 0, previousLength |-> 0,
                previousPercentage |-> 0, before |-> ""]
    /\ stage = "usage"

NextUsage ==
    \E n \in {0, 9, 10, 29, 30, 2036, 2037} \cup (2046..2049) \cup {2057, 2058} :
     \E payload \in {Repeat("A", n)} :
      /\ \/ /\ usagePercentage' = Percentage(UrlLength(payload))
            /\ isLimitReached' = (UrlLength(payload) > MAX_URL_LENGTH)
            /\ lastCommit' = "none"
            /\ UNCHANGED <<history, historyIndex, lastSavedContentRef, lastSavedModeRef,
                           hasUnsavedChangesRef>>
         \/ CommitPayload(payload, "a", "edit")
      /\ probe' = [probe EXCEPT !.length = n, !.previousLength = probe.length,
                                !.previousPercentage = usagePercentage,
                                !.before = LocationHash,
                                !.op = IF lastCommit' = "none" THEN "feedback"
                                       ELSE "commit"]
      /\ UNCHANGED <<markdownValue, previewMode, saveTimeoutRef, currentContentRef,
                     recordingCursorPositionRef, hasMouseMoved, timers, pending,
                     pipelineOk, isRecording, isTranscribing, recorderMode,
                     recorderProvider, recorderContent, recordings, configVars, stage>>

SpecUsage == InitUsage /\ [][NextUsage]_vars

\* the providers alone: probe holds the last call and what it gave,
\* validationRequests the calls that reached a vendor
NoProviderCall ==
    [op |-> "none", type |-> "", apiKey |-> "", created |-> createProvider(""),
     result |-> "", network |-> FALSE]

\* await createProvider(type)
CreateProviderCall(type) ==
    /\ probe' = [NoProviderCall EXCEPT !.op = "create", !.type = type,
                                       !.created = createProvider(type)]
    /\ validationRequests' = validationRequests

\* await provider.validateConfig({ apiKey }) on a new provider of a type
ValidateConfigCall(providerType, apiKey) ==
    \E r \in validateConfig(providerType, apiKey) :
        /\ probe' = [NoProviderCall EXCEPT !.op = "validate", !.type = providerType,
                                           !.apiKey = apiKey, !.result = r.result,
                                           !.network = r.network]
        /\ validationRequests' =
              IF r.network
              THEN validationRequests \cup {[provider |-> providerType, apiKey |-> apiKey]}
              ELSE validationRequests

InitProviders ==
    /\ EditorInit("", TRUE)
    /\ selectedProvider = "openai" /\ providerConfig = NullValue
    /\ configStatus = "idle" /\ provider = "none" /\ validationRequests = {}
    /\ isTerminal \in BOOLEAN
    /\ localStorage = <<>>
    /\ probe = NoProviderCall
    /\ stage = "providers"

NextProviders ==
    /\ \/ \E type \in {"openai", "google", "invalid", "bogus"} : CreateProviderCall(type)
       \/ \E providerType \in ProviderTypes,
             apiKey \in {"", "sk-short", "sk-1234567890", ValidLengthKey} :
            ValidateConfigCall(providerType, apiKey)
    /\ UNCHANGED <<editorVars, selectedProvider, providerConfig, configStatus, provider,
                   localStorage, isTerminal, stage>>

SpecProviders == InitProviders /\ [][NextProviders]_vars

\* the Recorder in the page of an empty document: the selection and the
\* validation of a key, one recording and what becomes of it; probe holds
\* what the last validation gave
InitRecorder ==
    /\ EditorInit("", TRUE)
    /\ selectedProvider = "openai" /\ providerConfig = NullValue
    /\ configStatus = "idle" /\ provider = "none" /\ validationRequests = {}
    /\ isTerminal = FALSE
    /\ localStorage \in
          { <<>>,
            <<[key |-> "vark-provider-openai", value |-> "not-json{"]>>,
            <<[key |-> "vark-provider-google", value |-> "{\"apiKey\":\"sk-short\"}"]>> }
    /\ probe = NoCall
    /\ stage = "rendered"

NextRecorder ==
    \/ /\ \/ \E providerType \in ProviderTypes : ProviderSelected(providerType)
          \/ InitializeResume
       /\ UNCHANGED editorStateVars
       /\ lastCommit' = "none"
       /\ probe' = NoCall
    \/ /\ \E value \in {"", "sk-short", ValidLengthKey} : ConfigInput(value)
       /\ UNCHANGED editorStateVars
       /\ lastCommit' = "none"
    \/ /\ ValidateResume
       /\ UNCHANGED editorStateVars
       /\ lastCommit' = "none"
    \/ MicrophoneRefused
    \/ /\ \/ StartRecording
          \/ StopRecording
          \/ TranscribeSettles
          \/ DeliverTranscription
          \/ ChangeResume
          \/ DebounceTimerFires
          \/ SaveToUrlResume
       /\ UNCHANGED <<configVars, stage>>
       /\ probe' = NoCall

SpecRecorder == InitRecorder /\ [][NextRecorder]_vars

\* the microphone button step by step, in a page opened without a document
\* and with a key the vendor accepted, which the user may then replace;
\* probe tells of a refused click and of what the last validation gave
InitMicrophone ==
    /\ EditorInit("", TRUE)
    /\ RecorderValid
    /\ probe = NoCall
    /\ stage = "mounted"

NextMicrophone ==
    \/ /\ \/ StartClick
          \/ StartResume
          \/ StopClick
          \/ RecorderOnStop
          \/ TranscribeSettles
          \/ DeliverTranscription
          \/ ChangeResume
          \/ DebounceTimerFires
          \/ SaveToUrlResume
       /\ UNCHANGED <<configVars, stage>>
       /\ probe' = NoCall
    \/ /\ \E value \in {"", "sk-short", ValidLengthKey} : ConfigInput(value)
       /\ UNCHANGED editorStateVars
       /\ lastCommit' = "none"
    \/ /\ ValidateResume
       /\ UNCHANGED editorStateVars
       /\ lastCommit' = "none"
    \/ MicrophoneRefused

SpecMicrophone == InitMicrophone /\ [][NextMicrophone]_vars

\* locations made outside the page: the JSON of a document, with and without
\* text, whose mode member is a string the page never writes
ForeignHashes ==
    { btoa(Gzip(TextEncode(JsonStringify(text, "preview")))) : text \in {"", "a"} }

\* the page opened at such a location; the user switches modes and goes back
\* and forward
InitForeign ==
    /\ \E h \in ForeignHashes : EditorInit(h, TRUE)
    /\ RecorderIdle
    /\ probe = IdleProbe
    /\ stage = "foreign"

NextForeign ==
    /\ \/ LoadDecoded
       \/ LoadUsageResume
       \/ ToggleMode
       \/ SaveToUrlWithModeResume
       \/ Navigate
       \/ PopStateDecoded
       \/ PopStateUsageResume
    /\ UNCHANGED <<configVars, probe, stage>>

SpecForeign == InitForeign /\ [][NextForeign]_vars

\* handleTranscription alone: a document, a captured caret (also one past
\* the end of the document) and a transcription, which may be empty or
\* start and end with a space; probe holds them and the text handed to
\* handleContentChange, if any
InitDictation ==
    /\ EditorInit("", TRUE)
    /\ RecorderValid
    /\ stage = "dictation"
    /\ probe \in { [op |-> "input", value |-> value, cursorPos |-> cursorPos,
                     text |-> text, result |-> value] :
                     value \in TextsUpTo(MaxTextLen),
                     cursorPos \in 0..(MaxTextLen + 1),
                     text \in {"", "x", " x "} }

\* handleTranscription(text): nothing is done for an empty text
ApplyDictation ==
    /\ probe.op = "input"
    /\ probe' = IF probe.text = ""
                THEN [probe EXCEPT !.op = "ignored"]
                ELSE [probe EXCEPT !.op = "dictated",
                                   !.result = Dictated(probe.value, probe.cursorPos, probe.text)]
    /\ UNCHANGED <<editorVars, configVars, stage>>

SpecDictation == InitDictation /\ [][ApplyDictation]_vars

(***************************************************************************)
(* Properties of the recorder and its provider                             *)
(***************************************************************************)
\* the calls of onTranscription that are due
DeliveriesIn(bag) == { c \in BagToSet(bag) : c.kind = "deliver" }

\* C11: when provider.transcribe fails, in whatever category, no call of the
\* transcription callback becomes due, and the content, the mode, the
\* unsaved flag, the debounce timer and the location are what they were
C11_FailedTranscriptionFrame ==
    [][(isTranscribing /\ ~isTranscribing' /\ stage' = "error")
        => /\ DeliveriesIn(pending') = DeliveriesIn(pending)
           /\ markdownValue' = markdownValue /\ previewMode' = previewMode
           /\ currentContentRef' = currentContentRef
           /\ hasUnsavedChangesRef' = hasUnsavedChangesRef
           /\ saveTimeoutRef' = saveTimeoutRef /\ timers' = timers
           /\ history' = history /\ historyIndex' = historyIndex]_vars

\* a transcription has failed while a typed "a" waited for its debounce timer
C11_Witness ==
    /\ stage = "error" /\ ~isTranscribing
    /\ markdownValue = "a" /\ hasUnsavedChangesRef /\ saveTimeoutRef # 0
    /\ DeliveriesIn(pending) = {}

\* C14: createProvider gives the provider of the type asked for when the
\* type is openai or google, and for any other type it fails with the
\* message "Unknown provider: " followed by the type
C14_CreateProvider ==
    (probe.op = "create")
        => IF probe.type \in {"openai", "google"}
           THEN probe.created.ok /\ probe.created.name = probe.type
           ELSE ~probe.created.ok
                    /\ probe.created.message = "Unknown provider: " \o probe.type

\* createProvider was asked for the type bogus
C14_Witness ==
    /\ probe.op = "create" /\ probe.type = "bogus"
    /\ probe.created.message = "Unknown provider: bogus"

\* C15: validateConfig with an empty key, for either provider, or with the
\* too short key sk-short for OpenAI, gives false and calls no vendor
C15_ShortCircuit ==
    (/\ probe.op = "validate"
     /\ \/ probe.apiKey = ""
        \/ probe.type = "openai" /\ probe.apiKey = "sk-short")
        => /\ probe.result = "false"
           /\ ~probe.network
           /\ [provider |-> probe.type, apiKey |-> probe.apiKey] \notin validationRequests

\* OpenAI's validateConfig turned down sk-short after other keys had been
\* sent to a vendor
C15_Witness ==
    /\ probe.op = "validate" /\ probe.type = "openai" /\ probe.apiKey = "sk-short"
    /\ probe.result = "false"
    /\ validationRequests # {}

\* C12: right after a validation settled, the status is restricted when
\* validateConfig gave restricted, valid when it gave true and invalid when
\* it gave false: restricted is told apart from invalid
C12_TriStateStatus ==
    /\ probe.op = "restricted" => configStatus = "restricted"
    /\ probe.op = "true" => configStatus = "valid"
    /\ probe.op = "false" => configStatus = "invalid"

\* the key of the selected provider was found restricted
C12_Witness ==
    /\ probe.op = "restricted" /\ probe.providerType = selectedProvider
    /\ provider = selectedProvider
    /\ configStatus = "restricted"

\* a recording starts, or a transcription starts
RecordingStarts == ~isRecording /\ isRecording'
TranscriptionStarts == ~isTranscribing /\ isTranscribing'

StoredBefore(providerType) ==
    { probe.before[k].value : k \in { j \in 1..Len(probe.before) :
                                        probe.before[j].key = storagePrefix \o providerType } }

\* the entries whose key does not start with the prefix
NotPrefixed(entries) ==
    LET Other(entry) == ~StartsWith(entry.key, storagePrefix)
    IN  SelectSeq(entries, Other)

\* C16: in the browser, right after setProviderConfig(p, c) a read of p gives
\* c, whatever the key held before
C16_SetThenGet ==
    (~isTerminal /\ probe.op = "set")
        => getProviderConfig(probe.providerType) = probe.config

\* a key with a quote and a backslash was stored over a corrupt record
C16_Witness ==
    /\ ~isTerminal /\ probe.op = "set" /\ probe.providerType = "openai"
    /\ probe.config = ApiKeyConfig("k\"\\2")
    /\ StoredBefore("openai") = {"not-json{"}
    /\ getProviderConfig("openai") = probe.config

\* C17: right after removeProviderConfig(p) a read of p gives null; right
\* after a set or a remove for p, a read of another provider gives what it
\* gave before the call and the entries whose key lacks the prefix are the
\* ones found before the call
C17_RemoveAndFrame ==
    (probe.op \in {"set", "remove"})
        => /\ probe.op = "remove" => getProviderConfig(probe.providerType) = NullValue
           /\ \A q \in ProviderTypes \ {probe.providerType} :
                    getProviderConfig(q) = probe.reads[q]
           /\ NotPrefixed(localStorage) = NotPrefixed(probe.before)

\* the credential of openai was removed while google had one and another
\* key of the page was there
C17_Witness ==
    /\ ~isTerminal /\ probe.op = "remove" /\ probe.providerType = "openai"
    /\ StoredBefore("openai") # {}
    /\ getProviderConfig("openai") = NullValue
    /\ getProviderConfig("google") = ApiKeyConfig("k1")
    /\ NotPrefixed(localStorage) # <<>>

\* C18: getProviderConfig never raises: when nothing is stored for the
\* provider, or what is stored is not JSON, it returns null
C18_GetNeverRaises ==
    \A providerType \in ProviderTypes \cup {"nonexistent"} :
        /\ getProviderConfig(providerType).kind # "raised"
        /\ (\A stored \in {getItem(storagePrefix \o providerType)} :
                ~stored.has \/ ~JsonParse(stored.value).ok)
            => getProviderConfig(providerType) = NullValue

\* the record of openai is corrupt, and nothing is stored for google
C18_Witness ==
    /\ ~isTerminal
    /\ getItem(storagePrefix \o "openai") = [has |-> TRUE, value |-> "not-json{"]
    /\ ~getItem(storagePrefix \o "google").has
    /\ getProviderConfig("openai") = NullValue

\* C19: getConfiguredProviders lists exactly the providers whose read is not
\* null, each once, and no key that lacks the prefix
C19_ListedIffConfigured ==
    /\ \A providerType \in ProviderTypes :
            (\E k \in 1..Len(getConfiguredProviders) :
                    getConfiguredProviders[k] = providerType)
                <=> getProviderConfig(providerType) # NullValue
    /\ \A k, j \in 1..Len(getConfiguredProviders) :
            getConfiguredProviders[k] = getConfiguredProviders[j] => k = j
    /\ \A k \in 1..Len(getConfiguredProviders) :
            getConfiguredProviders[k] \in ProviderTypes

\* C20: in the terminal, as in the browser, right after
\* setProviderConfig(p, c) a read of p gives c
C20_TerminalSetThenGet ==
    (isTerminal /\ probe.op = "set")
        => getProviderConfig(probe.providerType) = probe.config

(***************************************************************************)
(* Properties of the usage metric and of the commits                       *)
(***************************************************************************)
\* C21: the percentage shown for a payload is round((length + 1) / 2048 *
\* 100) and the limit is reached when length + 1 exceeds 2048; a longer
\* payload never shows a smaller percentage, a reached limit shows at least
\* 100, a commit of a payload of up to 2047 characters puts it into the
\* location and a commit of one of 2048 or more leaves the location alone
C21_UsageMetric ==
    (probe.op \in {"feedback", "commit"})
        => /\ usagePercentage * 2 * MAX_URL_LENGTH <= 200 * (probe.length + 1) + MAX_URL_LENGTH
           /\ (usagePercentage + 1) * 2 * MAX_URL_LENGTH > 200 * (probe.length + 1) + MAX_URL_LENGTH
           /\ isLimitReached <=> (probe.length + 1 > MAX_URL_LENGTH)
           /\ probe.previousLength <= probe.length
                => probe.previousPercentage <= usagePercentage
           /\ isLimitReached => usagePercentage >= 100
           /\ (probe.op = "commit" /\ probe.length <= MAX_URL_LENGTH - 1)
                => Len(LocationHash) = probe.length /\ ~hasUnsavedChangesRef
           /\ (probe.op = "commit" /\ probe.length >= MAX_URL_LENGTH)
                => LocationHash = probe.before /\ lastCommit = "overBudget"

\* a payload of 2047 characters has been committed
C21_Witness ==
    /\ probe.op = "commit" /\ probe.length = MAX_URL_LENGTH - 1
    /\ Len(LocationHash) = MAX_URL_LENGTH - 1 /\ lastCommit = "pushed"
    /\ usagePercentage = 100 /\ ~isLimitReached

\* C22, under Spec: whenever a run of the commit procedure has pushed an
\* entry, the entry is the encoding of the text and the mode the document has
\* at that moment, never of a text or a mode taken earlier, when the timer
\* was armed or when the run started
C22_CommitsCurrentState == (lastCommit = "pushed") => LocationIsCurrent

\* C23, under Spec: when a run of the commit procedure completes while a
\* change that arrived in the meantime is still being handled, and what it
\* committed is not that change, the document stays marked unsaved, so that
\* a later commit persists the change
C23_MutationInFlightKept ==
    (/\ lastCommit \in {"pushed", "unchanged"}
     /\ \E c \in BagToSet(pending) : c.kind = "change" /\ c.content = currentContentRef
     /\ lastSavedContentRef # currentContentRef)
    => hasUnsavedChangesRef

\* C24, under Spec: when the textarea loses focus, the mouse moves for the
\* first time, a recording is started or the mode is toggled while the
\* document is marked unsaved, no debounce timer is left armed and a run of
\* the commit procedure for the current text and mode is started, also when
\* the text is empty
C24_TriggerCommitsUnsaved ==
    [][((Blur \/ MouseMove \/ StartRecording \/ ToggleMode) /\ hasUnsavedChangesRef)
         => /\ timers' = {}
            /\ \E c \in BagToSet(pending') :
                 /\ c.kind \in {"saveToUrl", "saveToUrlWithMode"}
                 /\ c.content = currentContentRef /\ c.mode = previewMode'
                 /\ CopiesIn(c, pending') > CopiesIn(c, pending)]_vars

\* C25, under SpecNavigation: once the user has gone back or forward while
\* the document was marked unsaved, and as long as nothing new is typed or
\* toggled, no entry is pushed: the location stays the one navigated to
C25_NavigationDropsEdit ==
    [][stage = "navigated" => history' = history /\ historyIndex' = historyIndex]_vars

\* C26, under SpecDebounce: when a change of the text has been handled to
\* its end and none is still being handled, the document holds the new text
\* and is marked unsaved, and exactly one debounce timer is armed, the one
\* armed for that text - also when the text is the one last committed and
\* the timer of an earlier change is pending
C26_MutationRearmsTimer ==
    [][(/\ (UserEdit /\ pending' = pending) \/ ChangeResume
        /\ \A c \in BagToSet(pending') : c.kind # "change")
         => /\ currentContentRef' = markdownValue'
            /\ hasUnsavedChangesRef'
            /\ \E t \in timers' :
                 /\ timers' = {t}
                 /\ t.id = saveTimeoutRef'
                 /\ t.content = markdownValue']_vars

\* C27, under Spec: at most one debounce timer is armed, and an armed timer
\* is the one saveTimeoutRef holds, so that a timer another one has taken
\* the place of is no longer there to expire
C27_SingleTimer ==
    /\ Cardinality(timers) <= 1
    /\ \A t \in timers : t.id = saveTimeoutRef

\* the timer of a change is armed while the next change, which will take its
\* place, is being handled
C27_Witness ==
    /\ \E t \in timers : timers = {t} /\ t.id = saveTimeoutRef /\ t.content = "a"
    /\ \E c \in BagToSet(pending) : c.kind = "change" /\ c.content = BigText
    /\ markdownValue = BigText

\* C28, under SpecNavigation, in a page opened without a document and
\* before any navigation: once the location carries the mode the document
\* is in, no entry pushed later - by a timer that expires or by a commit
\* that was under way - carries another mode
C28_ModeCommitStays ==
    [][(/\ stage' = "free" /\ history[1] = ""
        /\ lastCommit' = "pushed" /\ lastSavedModeRef = previewMode)
         => lastSavedModeRef' = previewMode']_vars

\* C29, under SpecDebounce: when the text has been changed, every change has
\* been handled to its end and the debounce timer has not expired yet, the
\* percentage and the limit flag shown are those of the encoding of the
\* document as it is now - also when the last change put back the text last
\* committed
C29_UsageFollowsDocument ==
    (stage = "window" /\ hasUnsavedChangesRef /\ pending = EmptyBag)
    => \E encoded \in {Encoded(markdownValue, previewMode)} :
         /\ usagePercentage = Percentage(UrlLength(encoded))
         /\ isLimitReached = (UrlLength(encoded) > MAX_URL_LENGTH)

\* C30, under SpecImmediate: a document that is marked unsaved and whose
\* encoding fits the budget is never left with nothing that will commit it:
\* a debounce timer is armed, or a change is being handled and will arm one,
\* or a run of the commit procedure is under way
C30_UnsavedWillCommit ==
    (hasUnsavedChangesRef /\ WithinBudget(Encoded(markdownValue, previewMode)))
    => \/ timers # {}
       \/ \E c \in BagToSet(pending) :
            c.kind \in {"change", "saveToUrl", "saveToUrlWithMode"}

\* C31, under Spec: whenever the document is not marked unsaved and nothing
\* is under way - no commit, no change being handled, no navigation or load
\* being decoded, no timer armed - the location decodes to the text and the
\* mode of the document; stated for a browser whose compression streams work
C31_CleanMeansPersisted ==
    (pipelineOk /\ ~hasUnsavedChangesRef /\ Quiescent)
    => Decoded(LocationHash) = [content |-> markdownValue, mode |-> previewMode]

\* C32, under Spec: when a run of the commit procedure for a text and mode
\* other than the empty text in edit mode completes with the empty payload
\* that encodeContent returns on failure, the history and the location stay
\* as they are and a document marked unsaved stays marked unsaved
C32_FailedEncodeKeepsState ==
    [][\A c \in BagToSet(pending) :
          (/\ c.kind \in {"saveToUrl", "saveToUrlWithMode"}
           /\ CopiesIn(c, pending') < CopiesIn(c, pending)
           /\ c.content # "" \/ c.mode # "edit"
           /\ Encoded(c.content, c.mode) = "")
          => /\ history' = history /\ historyIndex' = historyIndex
             /\ hasUnsavedChangesRef => hasUnsavedChangesRef']_vars

\* C33, under SpecHistory: a commit whose payload differs from the location
\* adds exactly one entry after the current one and moves to it, a commit
\* whose payload is the location adds none; and when the user has gone back
\* or forward and the navigation has settled, the document is the state
\* whose commit made the entry navigated to, not marked unsaved - so that
\* after commits of A and then B, back gives A and forward gives B
C33_BackAndForward ==
    /\ (lastCommit = "pushed")
         => /\ history = Append(SubSeq(probe.before, 1, probe.index), LocationHash)
            /\ historyIndex = probe.index + 1
            /\ LocationHash # probe.before[probe.index]
    /\ (lastCommit = "unchanged")
         => history = probe.before /\ historyIndex = probe.index
    /\ (stage \in {"back", "forward"} /\ Quiescent)
         => LocationIsCurrent /\ ~hasUnsavedChangesRef

\* after commits of "a" in live mode and then of "a" in view mode the user
\* has gone back and forward again, and the document is "a" in view mode
C33_Witness ==
    /\ stage = "forward" /\ Quiescent
    /\ Len(history) = 3 /\ historyIndex = 3
    /\ history[2] = Encoded("a", "live") /\ history[3] = Encoded("a", "view")
    /\ markdownValue = "a" /\ previewMode = "view" /\ ~hasUnsavedChangesRef

(***************************************************************************)
(* Further properties of the recorder, under SpecRecorder                  *)
(***************************************************************************)
\* C34: when the response to a validation has set the status to valid or
\* restricted, the config that was validated is the config now in the field
\* and the provider it was stored for is the provider now selected: the
\* response to an earlier validation does not take effect
C34_LatestValidationWins ==
    (probe.op \in {"true", "restricted"})
    => /\ probe.config = providerConfig
       /\ probe.providerType = selectedProvider
       /\ configStatus = StatusAfter(probe.op)

\* C35, under SpecMicrophone: the recorder is never recording and
\* transcribing at the same time, however the clicks on the microphone, the
\* recorder's stop event and the provider's response follow each other
C35_NotRecordingAndTranscribing == ~(isRecording /\ isTranscribing)

\* C36, under SpecMicrophone: while the status is idle, validating or
\* invalid no step starts a recording, none clears the debounce timer as the
\* save before a recording does, and a run of the commit procedure starts
\* only when a timer expires; a click on the microphone in these states
\* changes nothing in the recorder or the editor
C36_NoRecordingUnconfigured ==
    [][(configStatus \in {"idle", "validating", "invalid"})
         => /\ ~RecordingStarts
            /\ saveTimeoutRef # 0 => saveTimeoutRef' # 0
            /\ \A c \in BagToSet(pending') :
                  (c.kind = "saveToUrl" /\ CopiesIn(c, pending') > CopiesIn(c, pending))
                  => timers' # timers
            /\ (probe'.op = "refused")
                  => UNCHANGED <<isRecording, isTranscribing, recordings, timers,
                                 saveTimeoutRef, pending, history, historyIndex>>]_vars

\* the keys of the storage whose value a step wrote or changed
KeysWritten ==
    { localStorage'[k].key : k \in { j \in 1..Len(localStorage') :
            \A i \in 1..Len(localStorage) : localStorage[i] # localStorage'[j] } }

\* what a read of the storage gives after the last validation or clearing
StorageFollowsValidation ==
    /\ (probe.op \in {"true", "restricted"})
          => getProviderConfig(probe.providerType) = probe.config
    /\ (probe.op \in {"false", "throws"})
          => getProviderConfig(probe.providerType).falsy
    /\ (probe.op = "cleared")
          => /\ probe.providerType = selectedProvider
             /\ getProviderConfig(selectedProvider).falsy

\* C37: the Recorder writes a configuration to the storage only when a
\* validation of it returned true or restricted, and the provider it was
\* validated for then reads back that configuration; after a validation that
\* returned false or threw, and after the key field was cleared, a read of
\* that provider finds nothing
C37_StoredMeansValidated ==
    /\ []StorageFollowsValidation
    /\ [][(KeysWritten # {})
            => /\ probe'.op \in {"true", "restricted"}
               /\ KeysWritten = {storagePrefix \o probe'.providerType}]_vars

\* the validation of a key that was stored threw, and the key is gone
C37_Witness ==
    /\ probe.op = "throws"
    /\ StoredBefore(probe.providerType) # {}
    /\ getProviderConfig(probe.providerType).falsy
    /\ probe.providerType = selectedProvider

(***************************************************************************)
(* The mode of the document, under SpecForeign                             *)
(***************************************************************************)
\* C38: previewMode is always one of edit, live and view, also after the
\* page was opened at, or went back to, a location that decodeContent decodes
C38_ModeIsKnown == previewMode \in Modes

(***************************************************************************)
(* The insertion of a transcription, under SpecDictation                   *)
(***************************************************************************)
\* C39: handleTranscription puts the text at min(caret, length) of the
\* document: the result is the part before that position, one space iff
\* that part is not empty and does not end in white space, the text, one
\* space iff the part after is not empty and does not start with white
\* space, and the part after; the document is still there, in its order,
\* around what was inserted
C39_InsertionAtCaret ==
    (probe.op = "dictated") =>
        LET n      == Len(probe.value)
            at     == IF probe.cursorPos < n THEN probe.cursorPos ELSE n
            before == Slice(probe.value, 1, at)
            after  == Slice(probe.value, at + 1, n)
            p      == IF before # "" /\ CharAt(before, Len(before)) \notin JsWhitespace
                      THEN " " ELSE ""
            s      == IF after # "" /\ CharAt(after, 1) \notin JsWhitespace
                      THEN " " ELSE ""
            m      == Len(p) + Len(probe.text) + Len(s)
        IN  /\ probe.result = before \o p \o probe.text \o s \o after
            /\ before \o after = probe.value
            /\ Slice(probe.result, 1, at) \o Slice(probe.result, at + m + 1, n + m)
                  = probe.value

\* a text was put between a letter and a line break: a space before it, none
\* after it
C39_Witness ==
    /\ probe.op = "dictated"
    /\ probe.value = "a\n" /\ probe.cursorPos = 1 /\ probe.text = "x"
    /\ probe.result = "a x\n"

====
